---- MODULE Spec2Model ----
(***************************************************************************)
(* Model of the view services of open62541 (src/server/ua_services_view.c):*)
(* Browse, BrowseNext and TranslateBrowsePathsToNodeIds.                   *)
(*                                                                         *)
(* Indices stored in a continuation point (referenceKindIndex,             *)
(* targetIndex) are 0-based as in the C code; TLA+ sequences are 1-based,  *)
(* so element i of a C array is seq[i + 1].                                *)
(***************************************************************************)
EXTENDS Integers, Sequences, FiniteSets, TLC

VARIABLES
    nodestore,              \* set of node ids currently present in the store
    maxReferencesPerNode,   \* server->config.maxReferencesPerNode
    sessions,               \* session id -> [continuationPoints, availableContinuationPoints]
    last,                   \* the last service operation and its result
    xphase, xdescr, xmaxrefs, xrows, xcp, xstatusOk,
                            \* one Browse/BrowseNext exchange followed from start to end
    tphase, tpath, tresult, \* one browse path, as requested and as translated
    tmem,                   \* the allocation of that translation that failed
    maxNodesPerBrowse,      \* server->config.maxNodesPerBrowse
    rphase, rrequest, rresponse
                            \* a Browse request as it is put together, and the response

vars == <<nodestore, maxReferencesPerNode, sessions, last,
          xphase, xdescr, xmaxrefs, xrows, xcp, xstatusOk, tphase, tpath, tresult,
          tmem, maxNodesPerBrowse, rphase, rrequest, rresponse>>

(***************************************************************************)
(* Bounds of the model                                                     *)
(***************************************************************************)
NumGuids == 3          \* size of the identifier space UA_Guid_random draws from
MaxRequestedRefs == 2  \* largest requestedMaxReferencesPerNode a client sends
MaxServerRefs == 2     \* largest configured maxReferencesPerNode
MaxPathLen == 2        \* largest number of elements of a browse path
MaxRequestSize == 2    \* largest number of browse descriptions of a request
MaxNodesLimit == 1     \* largest configured maxNodesPerBrowse

(***************************************************************************)
(* Program constants                                                       *)
(***************************************************************************)
UA_INT32_MAX == 2147483647
\* 0xFFFFFFFF, written as the 32-bit two's complement value: TLC integers are
\* 32-bit signed.  It is only ever compared for equality.
UA_UINT32_MAX == -1
UA_BROWSEDIRECTION_FORWARD == 0
UA_BROWSEDIRECTION_INVERSE == 1
UA_BROWSEDIRECTION_BOTH == 2
UA_NODECLASS_OBJECT == 1
UA_NODECLASS_VARIABLE == 2
UA_NODECLASS_REFERENCETYPE == 32

UA_STATUSCODE_GOOD == "Good"
UA_STATUSCODE_BADOUTOFMEMORY == "BadOutOfMemory"
UA_STATUSCODE_BADBROWSEDIRECTIONINVALID == "BadBrowseDirectionInvalid"
UA_STATUSCODE_BADREFERENCETYPEIDINVALID == "BadReferenceTypeIdInvalid"
UA_STATUSCODE_BADNODEIDUNKNOWN == "BadNodeIdUnknown"
UA_STATUSCODE_BADNOCONTINUATIONPOINTS == "BadNoContinuationPoints"
UA_STATUSCODE_BADCONTINUATIONPOINTINVALID == "BadContinuationPointInvalid"
UA_STATUSCODE_BADNOTHINGTODO == "BadNothingToDo"
UA_STATUSCODE_BADBROWSENAMEINVALID == "BadBrowseNameInvalid"
UA_STATUSCODE_BADNOMATCH == "BadNoMatch"
UA_STATUSCODE_BADVIEWIDUNKNOWN == "BadViewIdUnknown"
UA_STATUSCODE_BADTOOMANYOPERATIONS == "BadTooManyOperations"

UA_NODEID_NULL == "null"
UA_NS0ID_HASSUBTYPE == "HasSubtype"
UA_BYTESTRING_NULL == 0
NoNode == [nodeId |-> UA_NODEID_NULL]

(***************************************************************************)
(* The address space.  The graph is fixed; which of its nodes are present  *)
(* in the store varies (nodestore).                                        *)
(***************************************************************************)
ExpandedNodeId(id, srv) == [nodeId |-> id, serverIndex |-> srv]
RefKind(type, inv, targets) ==
    [referenceTypeId |-> type, isInverse |-> inv, targetIds |-> targets]
QualifiedName(ns, name) == [namespaceIndex |-> ns, name |-> name]
Node(id, class, bname, refs) ==
    [nodeId |-> id, nodeClass |-> class, browseName |-> bname, references |-> refs]

RefTypeNode(id, parent) ==
    Node(id, UA_NODECLASS_REFERENCETYPE, QualifiedName(0, id),
         IF parent = UA_NODEID_NULL THEN <<>>
         ELSE << RefKind(UA_NS0ID_HASSUBTYPE, TRUE, <<ExpandedNodeId(parent, 0)>>) >>)

AddressSpace ==
    [ References    |-> RefTypeNode("References", UA_NODEID_NULL),
      Hierarchical  |-> RefTypeNode("Hierarchical", "References"),
      HasComponent  |-> RefTypeNode("HasComponent", "Hierarchical"),
      HasSubtype    |-> RefTypeNode("HasSubtype", "Hierarchical"),
      HasTypeDefinition |-> RefTypeNode("HasTypeDefinition", "References"),
      Root |-> Node("Root", UA_NODECLASS_OBJECT, QualifiedName(0, "Root"),
                << RefKind("HasComponent", FALSE,
                           << ExpandedNodeId("A", 0), ExpandedNodeId("B", 0),
                              ExpandedNodeId("E", 1), ExpandedNodeId("C", 0) >>),
                   RefKind("References", TRUE, << ExpandedNodeId("D", 0) >>),
                   RefKind("HasTypeDefinition", FALSE, << ExpandedNodeId("T", 0) >>),
                   RefKind("Hierarchical", FALSE,
                           << ExpandedNodeId("B", 0), ExpandedNodeId("E", 0) >>) >>),
      Empty |-> Node("Empty", UA_NODECLASS_OBJECT, QualifiedName(0, "Empty"), <<>>),
      A |-> Node("A", UA_NODECLASS_OBJECT, QualifiedName(1, "x"),
                << RefKind("HasTypeDefinition", FALSE, << ExpandedNodeId("T", 0) >>),
                   RefKind("HasComponent", FALSE,
                           << ExpandedNodeId("F", 0), ExpandedNodeId("G", 1) >>) >>),
      B |-> Node("B", UA_NODECLASS_VARIABLE, QualifiedName(1, "x"),
                << RefKind("Hierarchical", TRUE, << ExpandedNodeId("Root", 0) >>),
                   RefKind("HasComponent", FALSE,
                           << ExpandedNodeId("F", 0), ExpandedNodeId("D", 0) >>) >>),
      C |-> Node("C", UA_NODECLASS_OBJECT, QualifiedName(1, "y"), <<>>),
      D |-> Node("D", UA_NODECLASS_OBJECT, QualifiedName(0, "x"),
                << RefKind("References", FALSE, << ExpandedNodeId("Root", 0) >>) >>),
      E |-> Node("E", UA_NODECLASS_VARIABLE, QualifiedName(1, "y"), <<>>),
      F |-> Node("F", UA_NODECLASS_VARIABLE, QualifiedName(1, "y"), <<>>),
      T |-> Node("T", UA_NODECLASS_OBJECT, QualifiedName(0, "T"), <<>>) ]

AllNodeIds == DOMAIN AddressSpace
Optional == {"Root", "B"}      \* nodes a store may lack
Volatile == {"Root"}           \* nodes the store's owner adds and removes at run time
Stores == { (AllNodeIds \ Optional) \cup v : v \in SUBSET Optional }

Server(store, maxPerNode) == [nodestore |-> store, maxReferencesPerNode |-> maxPerNode]

\* UA_Nodestore_get: the node, or NoNode (NULL) when the id is not in the store
UA_Nodestore_get(server, id) ==
    IF id \in server.nodestore THEN AddressSpace[id] ELSE NoNode

\* isNodeInTree: is nodeToFind reachable from leafNode by following inverse
\* references of the given types upwards (visited guards against cycles)
RECURSIVE isNodeInTreeFrom(_, _, _, _, _)
isNodeInTreeFrom(server, leafNode, nodeToFind, referenceTypeIds, visited) ==
    IF nodeToFind = leafNode THEN TRUE
    ELSE IF leafNode \in visited THEN FALSE
    ELSE LET node == UA_Nodestore_get(server, leafNode) IN
         IF node.nodeId = UA_NODEID_NULL THEN FALSE
         ELSE \E r \in 1..Len(node.references) :
                 /\ node.references[r].isInverse
                 /\ node.references[r].referenceTypeId \in referenceTypeIds
                 /\ \E j \in 1..Len(node.references[r].targetIds) :
                        isNodeInTreeFrom(server, node.references[r].targetIds[j].nodeId,
                                         nodeToFind, referenceTypeIds,
                                         visited \cup {leafNode})

isNodeInTree(server, leafNode, nodeToFind, referenceTypeIds) ==
    isNodeInTreeFrom(server, leafNode, nodeToFind, referenceTypeIds, {})

\* getNodeType: the node reached over the HasTypeDefinition reference, or NoNode
getNodeType(server, node) ==
    LET kinds == { r \in 1..Len(node.references) :
                     /\ ~node.references[r].isInverse
                     /\ node.references[r].referenceTypeId = "HasTypeDefinition"
                     /\ Len(node.references[r].targetIds) > 0 }
    IN IF kinds = {} THEN NoNode
       ELSE LET r == CHOOSE k \in kinds : \A k2 \in kinds : k <= k2
            IN UA_Nodestore_get(server, node.references[r].targetIds[1].nodeId)

NullName == QualifiedName(0, "")

\* UA_ReferenceDescription_init followed by the copies the result mask selects
fillReferenceDescription(server, curr, ref, mask) ==
    [ nodeId          |-> curr.nodeId,
      referenceTypeId |-> IF "ReferenceTypeId" \in mask THEN ref.referenceTypeId
                          ELSE UA_NODEID_NULL,
      isForward       |-> IF "IsForward" \in mask THEN ~ref.isInverse ELSE FALSE,
      nodeClass       |-> IF "NodeClass" \in mask THEN curr.nodeClass ELSE 0,
      browseName      |-> IF "BrowseName" \in mask THEN curr.browseName ELSE NullName,
      typeDefinition  |->
          IF /\ "TypeDefinition" \in mask
             /\ curr.nodeClass \in {UA_NODECLASS_OBJECT, UA_NODECLASS_VARIABLE}
          THEN getNodeType(server, curr).nodeId
          ELSE UA_NODEID_NULL ]

relevantReference(server, includeSubtypes, rootRef, testRef) ==
    IF ~includeSubtypes THEN rootRef = testRef
    ELSE isNodeInTree(server, testRef, rootRef, {UA_NS0ID_HASSUBTYPE})

\* effectiveMaxrefs without the configured limit of the server
effectiveMaxrefs_clientOnly(server, cpMaxReferences) ==
    IF cpMaxReferences = 0 THEN UA_INT32_MAX ELSE cpMaxReferences

\* effectiveMaxrefs without UA_INT32_MAX for the browse that has no limit
effectiveMaxrefs_noDefault(server, cpMaxReferences) ==
    IF cpMaxReferences = 0
    THEN server.maxReferencesPerNode
    ELSE IF server.maxReferencesPerNode # 0 /\ cpMaxReferences > server.maxReferencesPerNode
         THEN server.maxReferencesPerNode
         ELSE cpMaxReferences

\* "How many references can we return at most?"
effectiveMaxrefs(server, cpMaxReferences) ==
    IF cpMaxReferences = 0
    THEN IF server.maxReferencesPerNode # 0 THEN server.maxReferencesPerNode
         ELSE UA_INT32_MAX
    ELSE IF server.maxReferencesPerNode # 0 /\ cpMaxReferences > server.maxReferencesPerNode
         THEN server.maxReferencesPerNode
         ELSE cpMaxReferences

\* "Reference in the right direction?" and "part of the hierarchy we look for?"
kindAccepted(server, descr, rk) ==
    /\ ~(rk.isInverse /\ descr.browseDirection = UA_BROWSEDIRECTION_FORWARD)
    /\ ~(~rk.isInverse /\ descr.browseDirection = UA_BROWSEDIRECTION_INVERSE)
    /\ \/ descr.referenceTypeId = UA_NODEID_NULL
       \/ relevantReference(server, descr.includeSubtypes,
                            descr.referenceTypeId, rk.referenceTypeId)

\* the node class test left out: every target passes
classMismatch_never(descr, target) == FALSE

\* "Test if the node class matches": nodeClassMask is the set of classes whose
\* bit is set, so (nodeClass & mask) == 0 is non-membership
classMismatch(descr, target) ==
    descr.nodeClassMask # {} /\ target.nodeClass \notin descr.nodeClassMask

\* "Make enough space in the array": the capacity after a possible doubling
grownSize(referencesSize, refs_size, maxrefs) ==
    IF referencesSize >= refs_size
    THEN IF refs_size * 2 > maxrefs THEN maxrefs ELSE refs_size * 2
    ELSE refs_size

\* browseLoop leaving a reference kind at the first target that is not in the
\* store
RECURSIVE browseLoop_missingEndsKind(_, _, _, _, _, _, _, _)
browseLoop_missingEndsKind(server, node, descr, maxrefs, referenceKindIndex, targetIndex, refs, refs_size) ==
    IF referenceKindIndex >= Len(node.references)
    THEN [done |-> TRUE, refs |-> refs, referenceKindIndex |-> referenceKindIndex,
          targetIndex |-> targetIndex, refs_size |-> refs_size]
    ELSE LET rk == node.references[referenceKindIndex + 1] IN
         IF ~kindAccepted(server, descr, rk)
         THEN \* continue: targetIndex is not reset
              browseLoop_missingEndsKind(server, node, descr, maxrefs, referenceKindIndex + 1,
                         targetIndex, refs, refs_size)
         ELSE IF targetIndex >= Len(rk.targetIds)
         THEN \* the targets of this kind are finished: next kind from index 0
              browseLoop_missingEndsKind(server, node, descr, maxrefs, referenceKindIndex + 1,
                         0, refs, refs_size)
         ELSE LET target == UA_Nodestore_get(server, rk.targetIds[targetIndex + 1].nodeId) IN
              IF target.nodeId = UA_NODEID_NULL
              THEN browseLoop_missingEndsKind(server, node, descr, maxrefs,
                              referenceKindIndex + 1, 0, refs, refs_size)
              ELSE IF classMismatch(descr, target)
              THEN browseLoop_missingEndsKind(server, node, descr, maxrefs, referenceKindIndex,
                              targetIndex + 1, refs, refs_size)
              ELSE IF Len(refs) >= maxrefs
              THEN [done |-> FALSE, refs |-> refs,
                    referenceKindIndex |-> referenceKindIndex,
                    targetIndex |-> targetIndex, refs_size |-> refs_size]
              ELSE browseLoop_missingEndsKind(server, node, descr, maxrefs, referenceKindIndex,
                              targetIndex + 1,
                              Append(refs, fillReferenceDescription(server, target, rk,
                                                                    descr.resultMask)),
                              grownSize(Len(refs), refs_size, maxrefs))

\* browseLoop returning at the row limit as soon as the rows are as many as
\* the limit, before a further match is found
RECURSIVE browseLoop_stopsWhenFull(_, _, _, _, _, _, _, _)
browseLoop_stopsWhenFull(server, node, descr, maxrefs, referenceKindIndex, targetIndex, refs, refs_size) ==
    IF referenceKindIndex >= Len(node.references)
    THEN [done |-> TRUE, refs |-> refs, referenceKindIndex |-> referenceKindIndex,
          targetIndex |-> targetIndex, refs_size |-> refs_size]
    ELSE LET rk == node.references[referenceKindIndex + 1] IN
         IF ~kindAccepted(server, descr, rk)
         THEN \* continue: targetIndex is not reset
              browseLoop_stopsWhenFull(server, node, descr, maxrefs, referenceKindIndex + 1,
                         targetIndex, refs, refs_size)
         ELSE IF Len(refs) >= maxrefs
         THEN [done |-> FALSE, refs |-> refs,
               referenceKindIndex |-> referenceKindIndex,
               targetIndex |-> targetIndex, refs_size |-> refs_size]
         ELSE IF targetIndex >= Len(rk.targetIds)
         THEN \* the targets of this kind are finished: next kind from index 0
              browseLoop_stopsWhenFull(server, node, descr, maxrefs, referenceKindIndex + 1,
                         0, refs, refs_size)
         ELSE LET target == UA_Nodestore_get(server, rk.targetIds[targetIndex + 1].nodeId) IN
              IF target.nodeId = UA_NODEID_NULL \/ classMismatch(descr, target)
              THEN browseLoop_stopsWhenFull(server, node, descr, maxrefs, referenceKindIndex,
                              targetIndex + 1, refs, refs_size)
              ELSE IF Len(refs) >= maxrefs
              THEN [done |-> FALSE, refs |-> refs,
                    referenceKindIndex |-> referenceKindIndex,
                    targetIndex |-> targetIndex, refs_size |-> refs_size]
              ELSE browseLoop_stopsWhenFull(server, node, descr, maxrefs, referenceKindIndex,
                              targetIndex + 1,
                              Append(refs, fillReferenceDescription(server, target, rk,
                                                                    descr.resultMask)),
                              grownSize(Len(refs), refs_size, maxrefs))

\* The two nested loops of browseReferences from position (referenceKindIndex,
\* targetIndex) with the rows gathered so far.  done = FALSE is the return at
\* the row limit, which writes the position into the continuation point.
RECURSIVE browseLoop(_, _, _, _, _, _, _, _)
browseLoop(server, node, descr, maxrefs, referenceKindIndex, targetIndex, refs, refs_size) ==
    IF referenceKindIndex >= Len(node.references)
    THEN [done |-> TRUE, refs |-> refs, referenceKindIndex |-> referenceKindIndex,
          targetIndex |-> targetIndex, refs_size |-> refs_size]
    ELSE LET rk == node.references[referenceKindIndex + 1] IN
         IF ~kindAccepted(server, descr, rk)
         THEN \* continue: targetIndex is not reset
              browseLoop(server, node, descr, maxrefs, referenceKindIndex + 1,
                         targetIndex, refs, refs_size)
         ELSE IF targetIndex >= Len(rk.targetIds)
         THEN \* the targets of this kind are finished: next kind from index 0
              browseLoop(server, node, descr, maxrefs, referenceKindIndex + 1,
                         0, refs, refs_size)
         ELSE LET target == UA_Nodestore_get(server, rk.targetIds[targetIndex + 1].nodeId) IN
              IF target.nodeId = UA_NODEID_NULL \/ classMismatch(descr, target)
              THEN browseLoop(server, node, descr, maxrefs, referenceKindIndex,
                              targetIndex + 1, refs, refs_size)
              ELSE IF Len(refs) >= maxrefs
              THEN [done |-> FALSE, refs |-> refs,
                    referenceKindIndex |-> referenceKindIndex,
                    targetIndex |-> targetIndex, refs_size |-> refs_size]
              ELSE browseLoop(server, node, descr, maxrefs, referenceKindIndex,
                              targetIndex + 1,
                              Append(refs, fillReferenceDescription(server, target, rk,
                                                                    descr.resultMask)),
                              grownSize(Len(refs), refs_size, maxrefs))

\* UA_BrowseResult_init
UA_BrowseResult_init ==
    [ statusCode |-> UA_STATUSCODE_GOOD, continuationPoint |-> UA_BYTESTRING_NULL,
      references |-> <<>>, referencesSize |-> 0, referencesPtr |-> "NULL" ]

\* walkOutcome with the target at the row limit consumed: the position written
\* into the continuation point is the one after the target that did not fit
walkOutcome_consumesTarget(result, cp, walk) ==
    [ done |-> walk.done,
      result |-> [result EXCEPT
                    !.references = walk.refs,
                    !.referencesSize = Len(walk.refs),
                    !.referencesPtr = IF walk.done /\ Len(walk.refs) = 0
                                      THEN "EMPTY_ARRAY_SENTINEL" ELSE "ARRAY"],
      cp |-> IF walk.done THEN cp
             ELSE [cp EXCEPT !.referenceKindIndex = walk.referenceKindIndex,
                             !.targetIndex = walk.targetIndex + 1] ]

\* walkOutcome storing the start of the reference kind instead of a target
\* past the second that did not fit
walkOutcome_rewinds(result, cp, walk) ==
    [ done |-> walk.done,
      result |-> [result EXCEPT
                    !.references = walk.refs,
                    !.referencesSize = Len(walk.refs),
                    !.referencesPtr = IF walk.done /\ Len(walk.refs) = 0
                                      THEN "EMPTY_ARRAY_SENTINEL" ELSE "ARRAY"],
      cp |-> IF walk.done THEN cp
             ELSE [cp EXCEPT !.referenceKindIndex = walk.referenceKindIndex,
                             !.targetIndex = IF walk.targetIndex > 1 THEN 0
                                            ELSE walk.targetIndex] ]

\* The result and the continuation point after the loops of browseReferences:
\* the array is the empty-array sentinel when the walk is done without a row;
\* at the row limit the position is written into the continuation point.
walkOutcome(result, cp, walk) ==
    [ done |-> walk.done,
      result |-> [result EXCEPT
                    !.references = walk.refs,
                    !.referencesSize = Len(walk.refs),
                    !.referencesPtr = IF walk.done /\ Len(walk.refs) = 0
                                      THEN "EMPTY_ARRAY_SENTINEL" ELSE "ARRAY"],
      cp |-> IF walk.done THEN cp
             ELSE [cp EXCEPT !.referenceKindIndex = walk.referenceKindIndex,
                             !.targetIndex = walk.targetIndex] ]

\* browseReferences: [done, result, cp].  allocFails: UA_Array_new returns NULL.
browseReferences(server, node, descr, result, cp, allocFails) ==
    IF Len(node.references) = 0
    THEN [done |-> TRUE, result |-> [result EXCEPT !.referencesSize = 0], cp |-> cp]
    ELSE IF allocFails
    THEN [done |-> FALSE,
          result |-> [result EXCEPT !.statusCode = UA_STATUSCODE_BADOUTOFMEMORY],
          cp |-> cp]
    ELSE walkOutcome(result, cp,
                     browseLoop(server, node, descr,
                                effectiveMaxrefs(server, cp.maxReferences),
                                cp.referenceKindIndex, cp.targetIndex, <<>>, 2))

(***************************************************************************)
(* Sessions and continuation points                                        *)
(***************************************************************************)
BrowseDescription(nodeId, dir, refType, subtypes, classMask, resultMask) ==
    [ nodeId |-> nodeId, browseDirection |-> dir, referenceTypeId |-> refType,
      includeSubtypes |-> subtypes, nodeClassMask |-> classMask,
      resultMask |-> resultMask ]

\* descr == NULL
NoDescription == BrowseDescription(UA_NODEID_NULL, 0, UA_NODEID_NULL, FALSE, {}, {})

ContinuationPointEntry(identifier, descr, referenceKindIndex, targetIndex, maxReferences) ==
    [ identifier |-> identifier, browseDescription |-> descr,
      referenceKindIndex |-> referenceKindIndex, targetIndex |-> targetIndex,
      maxReferences |-> maxReferences ]

RemoveAt(seq, i) == SubSeq(seq, 1, i - 1) \o SubSeq(seq, i + 1, Len(seq))

\* removeCp without the increment of the counter
removeCp_keepsCounter(cpIndex, session) ==
    [ continuationPoints |-> RemoveAt(session.continuationPoints, cpIndex),
      availableContinuationPoints |-> session.availableContinuationPoints ]

\* removeCp unlinking the head of the list instead of the entry it was given
removeCp_head(cpIndex, session) ==
    [ continuationPoints |-> Tail(session.continuationPoints),
      availableContinuationPoints |-> session.availableContinuationPoints + 1 ]

\* removeCp: LIST_REMOVE and ++session->availableContinuationPoints
removeCp(cpIndex, session) ==
    [ continuationPoints |-> RemoveAt(session.continuationPoints, cpIndex),
      availableContinuationPoints |-> session.availableContinuationPoints + 1 ]

\* LIST_INSERT_HEAD and --session->availableContinuationPoints
attachCp(cp, session) ==
    [ continuationPoints |-> <<cp>> \o session.continuationPoints,
      availableContinuationPoints |-> session.availableContinuationPoints - 1 ]

\* the test of the direction left out
validDirection_any(descr) == TRUE

\* "Is the browsedirection valid?"
validDirection(descr) ==
    descr.browseDirection \in {UA_BROWSEDIRECTION_BOTH, UA_BROWSEDIRECTION_FORWARD,
                               UA_BROWSEDIRECTION_INVERSE}

\* "Is the reference type valid?"
validReferenceType(server, referenceTypeId) ==
    \/ referenceTypeId = UA_NODEID_NULL
    \/ LET reftype == UA_Nodestore_get(server, referenceTypeId) IN
         /\ reftype.nodeId # UA_NODEID_NULL
         /\ reftype.nodeClass = UA_NODECLASS_REFERENCETYPE

\* finishBrowse promoting the cursor of every Browse into the session, also of
\* one that is done
finishBrowse_eager(session, cpIndex, descr, br, mem, guid) ==
    IF cpIndex # 0
    THEN IF br.done
         THEN [ session |-> removeCp(cpIndex, session), result |-> br.result ]
         ELSE [ session |-> [session EXCEPT !.continuationPoints[cpIndex] = br.cp],
                result  |-> [br.result EXCEPT !.continuationPoint = br.cp.identifier] ]
    ELSE IF session.availableContinuationPoints <= 0 \/ mem.cp
         THEN [ session |-> session,
                result  |-> IF br.done THEN br.result
                            ELSE [br.result EXCEPT
                                    !.statusCode = UA_STATUSCODE_BADNOCONTINUATIONPOINTS] ]
         ELSE LET cp == ContinuationPointEntry(guid, descr, br.cp.referenceKindIndex,
                                               br.cp.targetIndex, br.cp.maxReferences)
              IN [ session |-> attachCp(cp, session),
                   result  |-> IF br.done THEN br.result
                               ELSE [br.result EXCEPT !.continuationPoint = guid] ]

\* finishBrowse leaving a drained continuation point in the session
finishBrowse_keepsDrained(session, cpIndex, descr, br, mem, guid) ==
    IF cpIndex # 0
    THEN IF br.done
         THEN [ session |-> session, result |-> br.result ]
         ELSE [ session |-> [session EXCEPT !.continuationPoints[cpIndex] = br.cp],
                result  |-> [br.result EXCEPT !.continuationPoint = br.cp.identifier] ]
    ELSE IF ~br.done
    THEN IF session.availableContinuationPoints <= 0 \/ mem.cp
         THEN [ session |-> session,
                result  |-> [br.result EXCEPT
                               !.statusCode = UA_STATUSCODE_BADNOCONTINUATIONPOINTS] ]
         ELSE LET cp == ContinuationPointEntry(guid, descr, br.cp.referenceKindIndex,
                                               br.cp.targetIndex, br.cp.maxReferences)
              IN [ session |-> attachCp(cp, session),
                   result  |-> [br.result EXCEPT !.continuationPoint = guid] ]
    ELSE [ session |-> session, result |-> br.result ]

\* The part of Service_Browse_single after browseReferences returned with a
\* Good status: keep, retire or create the continuation point.
\*   cpIndex = 0: no continuation point was given (cp == NULL)
\*   mem.cp: UA_malloc of the new entry fails; guid: what UA_Guid_random returns
finishBrowse(session, cpIndex, descr, br, mem, guid) ==
    IF cpIndex # 0
    THEN IF br.done
         THEN [ session |-> removeCp(cpIndex, session), result |-> br.result ]
         ELSE [ session |-> [session EXCEPT !.continuationPoints[cpIndex] = br.cp],
                result  |-> [br.result EXCEPT !.continuationPoint = br.cp.identifier] ]
    ELSE IF ~br.done
    THEN IF session.availableContinuationPoints <= 0 \/ mem.cp
         THEN [ session |-> session,
                result  |-> [br.result EXCEPT
                               !.statusCode = UA_STATUSCODE_BADNOCONTINUATIONPOINTS] ]
         ELSE LET cp == ContinuationPointEntry(guid, descr, br.cp.referenceKindIndex,
                                               br.cp.targetIndex, br.cp.maxReferences)
              IN [ session |-> attachCp(cp, session),
                   result  |-> [br.result EXCEPT !.continuationPoint = guid] ]
    ELSE [ session |-> session, result |-> br.result ]

\* afterBrowse retiring the continuation point of a resume that ended with an
\* error
afterBrowse_retiresOnError(session, cpIndex, descr, br, mem, guid) ==
    IF br.result.statusCode # UA_STATUSCODE_GOOD
    THEN [ session |-> IF cpIndex # 0 THEN removeCp(cpIndex, session) ELSE session,
           result |-> br.result, done |-> br.done, limit |-> FALSE ]
    ELSE [ session |-> finishBrowse(session, cpIndex, descr, br, mem, guid).session,
           result  |-> finishBrowse(session, cpIndex, descr, br, mem, guid).result,
           done |-> br.done, limit |-> ~br.done ]

\* Service_Browse_single after browseReferences returned br: "Exit early if an
\* error occured", else keep, retire or create the continuation point
afterBrowse(session, cpIndex, descr, br, mem, guid) ==
    IF br.result.statusCode # UA_STATUSCODE_GOOD
    THEN [ session |-> session, result |-> br.result, done |-> br.done, limit |-> FALSE ]
    ELSE [ session |-> finishBrowse(session, cpIndex, descr, br, mem, guid).session,
           result  |-> finishBrowse(session, cpIndex, descr, br, mem, guid).result,
           done |-> br.done, limit |-> ~br.done ]

browseFailed(session, result, status) ==
    [ session |-> session, result |-> [result EXCEPT !.statusCode = status],
      done |-> FALSE, limit |-> FALSE ]

\* Service_Browse_single with the cursor and the description settled
browseWith(server, session, cpIndex, internal_cp, descr, result, mem, guid) ==
    IF ~validDirection(descr)
    THEN browseFailed(session, result, UA_STATUSCODE_BADBROWSEDIRECTIONINVALID)
    ELSE IF ~validReferenceType(server, descr.referenceTypeId)
    THEN browseFailed(session, result, UA_STATUSCODE_BADREFERENCETYPEIDINVALID)
    ELSE IF UA_Nodestore_get(server, descr.nodeId).nodeId = UA_NODEID_NULL
    THEN browseFailed(session, result, UA_STATUSCODE_BADNODEIDUNKNOWN)
    ELSE afterBrowse(session, cpIndex, descr,
                     browseReferences(server, UA_Nodestore_get(server, descr.nodeId),
                                      descr, result, internal_cp, mem.refs),
                     mem, guid)

\* Service_Browse_single: [session, result, done, limit].  done is what
\* browseReferences returned; limit says that it returned at the row limit
\* (not done, with a Good status).  cpIndex = 0 is cp == NULL: the cursor is a
\* zeroed stack entry with the client's maxrefs; else the cursor and the
\* description are those of the entry.
Service_Browse_single(server, session, cpIndex, descrArg, maxrefs, result, mem, guid) ==
    IF cpIndex = 0
    THEN browseWith(server, session, cpIndex,
                    ContinuationPointEntry(UA_BYTESTRING_NULL, descrArg, 0, 0, maxrefs),
                    descrArg, result, mem, guid)
    ELSE browseWith(server, session, cpIndex, session.continuationPoints[cpIndex],
                    session.continuationPoints[cpIndex].browseDescription,
                    result, mem, guid)

\* findCp taking the head of the list whatever its identifier is
findCp_ignoresIdentifier(session, continuationPoint) ==
    IF session.continuationPoints = <<>> THEN 0 ELSE 1

\* "Find the continuation point": index of the first entry with the identifier,
\* 0 when the list holds none (cp == NULL after LIST_FOREACH)
findCp(session, continuationPoint) ==
    IF \E i \in 1..Len(session.continuationPoints) :
           session.continuationPoints[i].identifier = continuationPoint
    THEN CHOOSE i \in 1..Len(session.continuationPoints) :
           /\ session.continuationPoints[i].identifier = continuationPoint
           /\ \A j \in 1..(i - 1) :
                 session.continuationPoints[j].identifier # continuationPoint
    ELSE 0

\* Operation_BrowseNext acting on the head of the list once the identifier is
\* found in it
Operation_BrowseNext_onHead(server, session, releaseContinuationPoint, continuationPoint, result, mem) ==
    IF findCp(session, continuationPoint) = 0
    THEN browseFailed(session, result, UA_STATUSCODE_BADCONTINUATIONPOINTINVALID)
    ELSE IF ~releaseContinuationPoint
    THEN Service_Browse_single(server, session, 1,
                               NoDescription, 0, result, mem, UA_BYTESTRING_NULL)
    ELSE [ session |-> removeCp(1, session),
           result |-> result, done |-> FALSE, limit |-> FALSE ]

\* Operation_BrowseNext: [session, result, done, limit]
Operation_BrowseNext(server, session, releaseContinuationPoint, continuationPoint, result, mem) ==
    IF findCp(session, continuationPoint) = 0
    THEN browseFailed(session, result, UA_STATUSCODE_BADCONTINUATIONPOINTINVALID)
    ELSE IF ~releaseContinuationPoint
    THEN Service_Browse_single(server, session, findCp(session, continuationPoint),
                               NoDescription, 0, result, mem, UA_BYTESTRING_NULL)
    ELSE [ session |-> removeCp(findCp(session, continuationPoint), session),
           result |-> result, done |-> FALSE, limit |-> FALSE ]

LiveIdentifiers(sess) ==
    UNION { { sess[s].continuationPoints[i].identifier :
                i \in 1..Len(sess[s].continuationPoints) } : s \in DOMAIN sess }

\* UA_Guid_random: the values the generator can return.  A 16-byte random value
\* does not collide with an identifier in use.
UA_Guid_random(sess) == (1..NumGuids) \ LiveIdentifiers(sess)

(***************************************************************************)
(* The Browse service on a whole request                                   *)
(***************************************************************************)
BrowseRequest(viewId, requestedMaxReferencesPerNode, nodesToBrowse) ==
    [ viewId |-> viewId, requestedMaxReferencesPerNode |-> requestedMaxReferencesPerNode,
      nodesToBrowse |-> nodesToBrowse ]

\* a response: results is NULL (resultsSize 0) as long as the array was not
\* allocated; session is the session after the request
BrowseResponse(serviceResult, results, session) ==
    [ serviceResult |-> serviceResult, results |-> results,
      resultsSize |-> Len(results), session |-> session ]

\* the guid the generator returns to the next operation that asks for one:
\* guids are the values it returns in the order of the calls, used of them how
\* many were returned already
nextGuid(guids, used) ==
    IF used < Len(guids) THEN guids[used + 1] ELSE UA_BYTESTRING_NULL

\* the loop "for(i = 0; i < size; ++i) Service_Browse_single(...)" from
\* description i (0-based) on; afterSingle is the loop from the result of
\* description i on
RECURSIVE browseEach(_, _, _, _, _, _, _, _)
\* afterSingle charging a continuation point to a description that ended with
\* an error
afterSingle_chargesErrors(server, request, i, results, mems, guids, used, out) ==
    browseEach(server,
               IF out.result.statusCode # UA_STATUSCODE_GOOD
               THEN [out.session EXCEPT !.availableContinuationPoints = @ - 1]
               ELSE out.session,
               request, i + 1, Append(results, out.result), mems, guids,
               IF out.result.continuationPoint # UA_BYTESTRING_NULL
               THEN used + 1 ELSE used)

afterSingle(server, request, i, results, mems, guids, used, out) ==
    browseEach(server, out.session, request, i + 1, Append(results, out.result),
               mems, guids,
               IF out.result.continuationPoint # UA_BYTESTRING_NULL
               THEN used + 1 ELSE used)

browseEach(server, session, request, i, results, mems, guids, used) ==
    IF i >= Len(request.nodesToBrowse)
    THEN BrowseResponse(UA_STATUSCODE_GOOD, results, session)
    ELSE afterSingle(server, request, i, results, mems, guids, used,
                     Service_Browse_single(server, session, 0,
                                           request.nodesToBrowse[i + 1],
                                           request.requestedMaxReferencesPerNode,
                                           UA_BrowseResult_init, mems[i + 1],
                                           nextGuid(guids, used)))

\* Service_Browse looking at the number of descriptions before the view
Service_Browse_sizeFirst(server, maxNodes, session, request, allocFails, mems, guids) ==
    IF Len(request.nodesToBrowse) <= 0
    THEN BrowseResponse(UA_STATUSCODE_BADNOTHINGTODO, <<>>, session)
    ELSE IF maxNodes # 0 /\ Len(request.nodesToBrowse) > maxNodes
    THEN BrowseResponse(UA_STATUSCODE_BADTOOMANYOPERATIONS, <<>>, session)
    ELSE IF request.viewId # UA_NODEID_NULL
    THEN BrowseResponse(UA_STATUSCODE_BADVIEWIDUNKNOWN, <<>>, session)
    ELSE IF allocFails
    THEN BrowseResponse(UA_STATUSCODE_BADOUTOFMEMORY, <<>>, session)
    ELSE browseEach(server, session, request, 0, <<>>, mems, guids, 0)

\* Service_Browse.  maxNodes is server->config.maxNodesPerBrowse; allocFails:
\* UA_Array_new of the results returns NULL; mems[i + 1] says which allocation
\* of description i fails.
Service_Browse(server, maxNodes, session, request, allocFails, mems, guids) ==
    IF request.viewId # UA_NODEID_NULL
    THEN BrowseResponse(UA_STATUSCODE_BADVIEWIDUNKNOWN, <<>>, session)
    ELSE IF Len(request.nodesToBrowse) <= 0
    THEN BrowseResponse(UA_STATUSCODE_BADNOTHINGTODO, <<>>, session)
    ELSE IF maxNodes # 0 /\ Len(request.nodesToBrowse) > maxNodes
    THEN BrowseResponse(UA_STATUSCODE_BADTOOMANYOPERATIONS, <<>>, session)
    ELSE IF allocFails
    THEN BrowseResponse(UA_STATUSCODE_BADOUTOFMEMORY, <<>>, session)
    ELSE browseEach(server, session, request, 0, <<>>, mems, guids, 0)

(***************************************************************************)
(* TranslateBrowsePathToNodeIds                                            *)
(*                                                                         *)
(* The state of a walk: the result (status, the target array as far as it  *)
(* was written, the member count targetsSize), the capacity of the target  *)
(* array (the local targetsSize of the C code, here targetsCapacity), the  *)
(* next buffer with its capacity, and the targets met in the               *)
(* "external server" branch in the order they were met.                    *)
(***************************************************************************)
RelativePathElement(referenceTypeId, isInverse, includeSubtypes, targetName) ==
    [ referenceTypeId |-> referenceTypeId, isInverse |-> isInverse,
      includeSubtypes |-> includeSubtypes, targetName |-> targetName ]

BrowsePath(startingNode, elements) ==
    [ startingNode |-> startingNode, elements |-> elements ]

BrowsePathTarget(targetId, remainingPathIndex) ==
    [ targetId |-> targetId, remainingPathIndex |-> remainingPathIndex ]

\* UA_BrowsePathResult_init
UA_BrowsePathResult_init ==
    [ statusCode |-> UA_STATUSCODE_GOOD, targets |-> <<>>, targetsSize |-> 0,
      targetsPtr |-> "NULL" ]

\* array[index] = value for a 0-based index at most one past the written part
WriteSlot(array, index, value) ==
    IF index >= Len(array) THEN Append(array, value)
    ELSE [array EXCEPT ![index + 1] = value]

\* The "external server" branch: the array is doubled and the target is
\* written into the slot behind the members, result->targets[result->targetsSize];
\* targetsSize of the result is left as it is.
externalTarget(w, targetId, elemDepth) ==
    [w EXCEPT !.targetsCapacity = w.targetsCapacity * 2,
              !.result.targets = WriteSlot(w.result.targets, w.result.targetsSize,
                                           BrowsePathTarget(targetId, elemDepth)),
              !.result.statusCode = UA_STATUSCODE_GOOD,
              !.external = Append(w.external, BrowsePathTarget(targetId, elemDepth))]

\* "Add the node to the next array for the following path element"
localTarget(w, targetId) ==
    [w EXCEPT !.nextSize = IF w.nextSize <= Len(w.next) THEN w.nextSize * 2
                           ELSE w.nextSize,
              !.next = Append(w.next, targetId.nodeId),
              !.result.statusCode = UA_STATUSCODE_GOOD]

\* walkBrowsePathElementReferenceTargets from target i (0-based) on
RECURSIVE walkBrowsePathElementReferenceTargets(_, _, _, _)
walkBrowsePathElementReferenceTargets(w, elemDepth, rk, i) ==
    IF i >= Len(rk.targetIds) THEN w
    ELSE IF rk.targetIds[i + 1].serverIndex # 0
    THEN walkBrowsePathElementReferenceTargets(
             externalTarget(w, rk.targetIds[i + 1], elemDepth), elemDepth, rk, i + 1)
    ELSE walkBrowsePathElementReferenceTargets(
             localTarget(w, rk.targetIds[i + 1]), elemDepth, rk, i + 1)

\* "Does the direction of the reference match?" and "Is the node relevant?"
elementAccepts(server, elem, rk) ==
    /\ rk.isInverse = elem.isInverse
    /\ \/ elem.referenceTypeId = UA_NODEID_NULL
       \/ relevantReference(server, elem.includeSubtypes,
                            elem.referenceTypeId, rk.referenceTypeId)

\* "Loop over the nodes references" from kind r (0-based) on, while the status
\* is Good
RECURSIVE walkNodeReferences(_, _, _, _, _, _)
walkNodeReferences(server, w, elem, elemDepth, node, r) ==
    IF r >= Len(node.references) \/ w.result.statusCode # UA_STATUSCODE_GOOD THEN w
    ELSE IF ~elementAccepts(server, elem, node.references[r + 1])
    THEN walkNodeReferences(server, w, elem, elemDepth, node, r + 1)
    ELSE walkNodeReferences(server,
             walkBrowsePathElementReferenceTargets(w, elemDepth,
                                                   node.references[r + 1], 0),
             elem, elemDepth, node, r + 1)

\* nameMismatch without the test
nameMismatch_never(targetName, node) == FALSE

\* the browse name test against the target name of the previous element;
\* targetName is <<>> for the NULL pointer and <<name>> else
nameMismatch(targetName, node) ==
    /\ targetName # <<>>
    /\ \/ targetName[1].namespaceIndex # node.browseName.namespaceIndex
       \/ targetName[1].name # node.browseName.name

\* "Iterate over all nodes at the current depth-level" from node i (0-based) on
RECURSIVE walkCurrentNodes(_, _, _, _, _, _, _)
walkCurrentNodes(server, w, elem, elemDepth, targetName, current, i) ==
    IF i >= Len(current) THEN w
    ELSE IF UA_Nodestore_get(server, current[i + 1]).nodeId = UA_NODEID_NULL
    THEN walkCurrentNodes(server,
             IF elemDepth = 0
             THEN [w EXCEPT !.result.statusCode = UA_STATUSCODE_BADNODEIDUNKNOWN]
             ELSE w,
             elem, elemDepth, targetName, current, i + 1)
    ELSE IF nameMismatch(targetName, UA_Nodestore_get(server, current[i + 1]))
    THEN walkCurrentNodes(server, w, elem, elemDepth, targetName, current, i + 1)
    ELSE walkCurrentNodes(server,
             walkNodeReferences(server, w, elem, elemDepth,
                                UA_Nodestore_get(server, current[i + 1]), 0),
             elem, elemDepth, targetName, current, i + 1)

\* walkBrowsePathElement: the walk state after one path element
walkBrowsePathElement(server, w, elem, elemDepth, targetName, current) ==
    IF /\ elem.referenceTypeId # UA_NODEID_NULL
       /\ ~validReferenceType(server, elem.referenceTypeId)
    THEN w
    ELSE walkCurrentNodes(server, w, elem, elemDepth, targetName, current, 0)

\* addBrowsePathTargets without the test of the browse name
RECURSIVE addBrowsePathTargets_anyName(_, _, _, _, _)
addBrowsePathTargets_anyName(server, result, targetName, current, i) ==
    IF i >= Len(current) THEN result
    ELSE IF UA_Nodestore_get(server, current[i + 1]).nodeId = UA_NODEID_NULL
    THEN addBrowsePathTargets_anyName(server, result, targetName, current, i + 1)
    ELSE addBrowsePathTargets_anyName(server,
             [result EXCEPT
                !.targets = WriteSlot(result.targets, result.targetsSize,
                                BrowsePathTarget(ExpandedNodeId(current[i + 1], 0),
                                                 UA_UINT32_MAX)),
                !.targetsSize = result.targetsSize + 1],
             targetName, current, i + 1)

\* addBrowsePathTargets from node i (0-based) of current on
RECURSIVE addBrowsePathTargets(_, _, _, _, _)
addBrowsePathTargets(server, result, targetName, current, i) ==
    IF i >= Len(current) THEN result
    ELSE IF \/ UA_Nodestore_get(server, current[i + 1]).nodeId = UA_NODEID_NULL
            \/ nameMismatch(<<targetName>>, UA_Nodestore_get(server, current[i + 1]))
    THEN addBrowsePathTargets(server, result, targetName, current, i + 1)
    ELSE addBrowsePathTargets(server,
             [result EXCEPT
                !.targets = WriteSlot(result.targets, result.targetsSize,
                                BrowsePathTarget(ExpandedNodeId(current[i + 1], 0),
                                                 UA_UINT32_MAX)),
                !.targetsSize = result.targetsSize + 1],
             targetName, current, i + 1)

\* "After the last BrowsePathElement, move members from current to the result
\* targets", with the realloc when more space is needed
moveToTargets(server, w, targetName, current) ==
    [w EXCEPT !.targetsCapacity =
                  IF w.targetsCapacity < w.result.targetsSize + Len(current)
                  THEN w.result.targetsSize + Len(current) ELSE w.targetsCapacity,
              !.result = addBrowsePathTargets(server, w.result, targetName, current, 0),
              !.next = <<>>]

\* the walk state with the next buffer emptied for the following element
\* (current and next are exchanged, capacities included)
exchanged(w, currentSize) == [w EXCEPT !.next = <<>>, !.nextSize = currentSize]

\* walkBrowsePath from path element i (0-based) on; afterElement is the part
\* of the loop body behind the call of walkBrowsePathElement
RECURSIVE walkBrowsePath(_, _, _, _, _, _, _)
afterElement(server, path, after, currentSize, i) ==
    IF Len(after.next) = 0 \/ after.result.statusCode # UA_STATUSCODE_GOOD
    THEN after
    ELSE walkBrowsePath(server, path, exchanged(after, currentSize),
                        after.next, after.nextSize,
                        <<path.elements[i + 1].targetName>>, i + 1)

walkBrowsePath(server, path, w, current, currentSize, targetName, i) ==
    IF i >= Len(path.elements)
    THEN moveToTargets(server, w, targetName[1], current)
    ELSE afterElement(server, path,
                      walkBrowsePathElement(server, w, path.elements[i + 1], i,
                                            targetName, current),
                      currentSize, i)

UA_QualifiedName_isNull(name) == name.namespaceIndex = 0 /\ name.name = ""

\* "No results => BadNoMatch status code" and "Clean up the temporary arrays
\* and the targets": the result the caller sees
translated(result) ==
    IF result.targetsSize = 0 \/ result.statusCode # UA_STATUSCODE_GOOD
    THEN [ statusCode |-> IF result.statusCode = UA_STATUSCODE_GOOD
                          THEN UA_STATUSCODE_BADNOMATCH ELSE result.statusCode,
           targets |-> <<>>, targetsSize |-> 0, targetsPtr |-> "NULL" ]
    ELSE [ statusCode |-> result.statusCode,
           targets |-> SubSeq(result.targets, 1, result.targetsSize),
           targetsSize |-> result.targetsSize, targetsPtr |-> "ARRAY" ]

\* the walk of a path that passed the checks: targets, current and next are
\* allocated with room for 10 and current holds the starting node
walkOf(server, path) ==
    walkBrowsePath(server, path,
                   [ result |-> [UA_BrowsePathResult_init EXCEPT !.targetsPtr = "ARRAY"],
                     targetsCapacity |-> 10, next |-> <<>>, nextSize |-> 10,
                     external |-> <<>> ],
                   <<path.startingNode>>, 10, <<>>, 0)

\* "Allocate memory for the targets" and for the two temporary arrays, then
\* the walk and the clean-up.  fails names the UA_malloc that returns NULL:
\* without targets the pointer stays NULL; without current or next the targets
\* are freed and the pointer is left as it was.
allocated(server, path, fails) ==
    IF fails = "targets"
    THEN [UA_BrowsePathResult_init EXCEPT !.statusCode = UA_STATUSCODE_BADOUTOFMEMORY]
    ELSE IF fails \in {"current", "next"}
    THEN [UA_BrowsePathResult_init EXCEPT !.statusCode = UA_STATUSCODE_BADOUTOFMEMORY,
                                          !.targetsPtr = "FREED"]
    ELSE translated(walkOf(server, path).result)

\* Operation_TranslateBrowsePathToNodeIds testing the target name of the first
\* element only
Operation_TranslateBrowsePathToNodeIds_firstNameOnly(server, path, fails) ==
    IF Len(path.elements) <= 0
    THEN [UA_BrowsePathResult_init EXCEPT !.statusCode = UA_STATUSCODE_BADNOTHINGTODO]
    ELSE IF UA_QualifiedName_isNull(path.elements[1].targetName)
    THEN [UA_BrowsePathResult_init EXCEPT !.statusCode = UA_STATUSCODE_BADBROWSENAMEINVALID]
    ELSE allocated(server, path, fails)

\* Operation_TranslateBrowsePathToNodeIds
Operation_TranslateBrowsePathToNodeIds(server, path, fails) ==
    IF Len(path.elements) <= 0
    THEN [UA_BrowsePathResult_init EXCEPT !.statusCode = UA_STATUSCODE_BADNOTHINGTODO]
    ELSE IF \E i \in 1..Len(path.elements) :
                UA_QualifiedName_isNull(path.elements[i].targetName)
    THEN [UA_BrowsePathResult_init EXCEPT !.statusCode = UA_STATUSCODE_BADBROWSENAMEINVALID]
    ELSE allocated(server, path, fails)

(***************************************************************************)
(* Borrows from the node store.  A ledger follows the calls of             *)
(* UA_Nodestore_get, getNodeType and UA_Nodestore_release of an operation: *)
(* held are the nodes borrowed and not yet released, gets counts the       *)
(* lookups, fault says that a node was released or read while not held.    *)
(* The operators below follow the same control flow as the operators of    *)
(* the services above and keep the ledger only.                            *)
(***************************************************************************)
NoBorrows == [ held |-> <<>>, gets |-> 0, fault |-> FALSE ]

Holds(l, id) == \E i \in 1..Len(l.held) : l.held[i] = id

\* UA_Nodestore_get: a lookup, and a borrow when the node is there
borrowed(l, server, id) ==
    IF id \in server.nodestore
    THEN [l EXCEPT !.held = Append(@, id), !.gets = @ + 1]
    ELSE [l EXCEPT !.gets = @ + 1]

\* UA_Nodestore_release
released(l, id) ==
    IF Holds(l, id)
    THEN [l EXCEPT !.held =
             RemoveAt(@, CHOOSE i \in 1..Len(l.held) :
                            /\ l.held[i] = id
                            /\ \A j \in (i + 1)..Len(l.held) : l.held[j] # id)]
    ELSE [l EXCEPT !.fault = TRUE]

\* a read of a member of the node
readNode(l, id) == IF Holds(l, id) THEN l ELSE [l EXCEPT !.fault = TRUE]

\* the lookup of a reference type id and the test of its node class: the
\* ledger, and whether the id is one of a ReferenceType node
referenceTypeBorrows(l, server, referenceTypeId) ==
    IF referenceTypeId \notin server.nodestore
    THEN [ ledger |-> borrowed(l, server, referenceTypeId), isRef |-> FALSE ]
    ELSE [ ledger |-> released(readNode(borrowed(l, server, referenceTypeId), referenceTypeId),
                              referenceTypeId),
           isRef |-> AddressSpace[referenceTypeId].nodeClass = UA_NODECLASS_REFERENCETYPE ]

\* fillReferenceDescription: the target is read, and its type definition is
\* borrowed and released when the mask asks for it
fillBorrows(l, server, curr, mask) ==
    IF /\ "TypeDefinition" \in mask
       /\ curr.nodeClass \in {UA_NODECLASS_OBJECT, UA_NODECLASS_VARIABLE}
       /\ getNodeType(server, curr).nodeId # UA_NODEID_NULL
    THEN released(readNode(borrowed(readNode(l, curr.nodeId), server,
                             getNodeType(server, curr).nodeId),
                      getNodeType(server, curr).nodeId),
                 getNodeType(server, curr).nodeId)
    ELSE readNode(l, curr.nodeId)

\* the return at the row limit without the release of the target
limitReached_leaks(l, id) == l

\* "There are references we could not return": the target is released
limitReached(l, id) == released(l, id)

\* the loops of browseReferences from position (referenceKindIndex,
\* targetIndex) with referencesSize rows gathered; failAt is the number of rows
\* at which UA_realloc fails (0: never).  The walk is not followed past a
\* fault of the ledger.
RECURSIVE browseLoopBorrows(_, _, _, _, _, _, _, _, _, _)
browseLoopBorrows(server, node, descr, maxrefs, referenceKindIndex, targetIndex, referencesSize, refs_size, failAt, l) ==
    IF l.fault THEN l
    ELSE IF referenceKindIndex >= Len(node.references) THEN l
    ELSE IF ~kindAccepted(server, descr, node.references[referenceKindIndex + 1])
    THEN browseLoopBorrows(server, node, descr, maxrefs, referenceKindIndex + 1,
                           targetIndex, referencesSize, refs_size, failAt,
                           readNode(l, node.nodeId))
    ELSE IF targetIndex >= Len(node.references[referenceKindIndex + 1].targetIds)
    THEN browseLoopBorrows(server, node, descr, maxrefs, referenceKindIndex + 1,
                           0, referencesSize, refs_size, failAt, l)
    ELSE LET id == node.references[referenceKindIndex + 1].targetIds[targetIndex + 1].nodeId
             got == borrowed(readNode(l, node.nodeId), server, id)
         IN IF id \notin server.nodestore
            THEN browseLoopBorrows(server, node, descr, maxrefs, referenceKindIndex,
                                   targetIndex + 1, referencesSize, refs_size, failAt, got)
            ELSE IF classMismatch(descr, AddressSpace[id])
            THEN browseLoopBorrows(server, node, descr, maxrefs, referenceKindIndex,
                                   targetIndex + 1, referencesSize, refs_size, failAt,
                                   released(readNode(got, id), id))
            ELSE IF referencesSize >= maxrefs
            THEN limitReached(got, id)
            ELSE IF referencesSize >= refs_size /\ failAt = referencesSize
            THEN released(got, id)
            ELSE browseLoopBorrows(server, node, descr, maxrefs, referenceKindIndex,
                                   targetIndex + 1, referencesSize + 1,
                                   grownSize(referencesSize, refs_size, maxrefs), failAt,
                                   released(fillBorrows(got, server, AddressSpace[id],
                                                       descr.resultMask), id))

\* browseReferences on the borrowed node
browseReferencesBorrows(server, node, descr, cp, mem, failAt, l) ==
    IF Len(node.references) = 0 THEN readNode(l, node.nodeId)
    ELSE IF mem.refs THEN readNode(l, node.nodeId)
    ELSE browseLoopBorrows(server, node, descr,
                           effectiveMaxrefs(server, cp.maxReferences),
                           cp.referenceKindIndex, cp.targetIndex, 0, 2, failAt, l)

\* Service_Browse_single from the lookup of the node on
nodeBorrows(server, descr, cp, mem, failAt, l) ==
    IF descr.nodeId \notin server.nodestore THEN borrowed(l, server, descr.nodeId)
    ELSE released(browseReferencesBorrows(server, AddressSpace[descr.nodeId], descr, cp,
                                         mem, failAt,
                                         borrowed(l, server, descr.nodeId)),
                 descr.nodeId)

\* Service_Browse_single with the continuation point cp (the stack-allocated
\* one of a Browse, or the one of the session) and its description
Service_Browse_single_borrows(server, cp, mem, failAt) ==
    IF ~validDirection(cp.browseDescription) THEN NoBorrows
    ELSE IF cp.browseDescription.referenceTypeId = UA_NODEID_NULL
    THEN nodeBorrows(server, cp.browseDescription, cp, mem, failAt, NoBorrows)
    ELSE IF ~referenceTypeBorrows(NoBorrows, server,
                                  cp.browseDescription.referenceTypeId).isRef
    THEN referenceTypeBorrows(NoBorrows, server,
                              cp.browseDescription.referenceTypeId).ledger
    ELSE nodeBorrows(server, cp.browseDescription, cp, mem, failAt,
                     referenceTypeBorrows(NoBorrows, server,
                                          cp.browseDescription.referenceTypeId).ledger)

\* Operation_BrowseNext
Operation_BrowseNext_borrows(server, session, releaseContinuationPoint, continuationPoint, mem, failAt) ==
    IF findCp(session, continuationPoint) = 0 \/ releaseContinuationPoint
    THEN NoBorrows
    ELSE Service_Browse_single_borrows(server,
             session.continuationPoints[findCp(session, continuationPoint)], mem, failAt)

\* walkBrowsePathElement: "Iterate over all nodes at the current depth-level"
\* from node i (0-based) on
RECURSIVE currentBorrows(_, _, _, _, _)
currentBorrows(server, l, targetName, current, i) ==
    IF i >= Len(current) THEN l
    ELSE IF current[i + 1] \notin server.nodestore
    THEN currentBorrows(server, borrowed(l, server, current[i + 1]),
                        targetName, current, i + 1)
    ELSE IF nameMismatch(targetName, AddressSpace[current[i + 1]])
    THEN currentBorrows(server,
             released(readNode(borrowed(l, server, current[i + 1]), current[i + 1]),
                      current[i + 1]),
             targetName, current, i + 1)
    ELSE \* the loop over the references reads the node, then the release
         currentBorrows(server,
             released(readNode(borrowed(l, server, current[i + 1]), current[i + 1]),
                      current[i + 1]),
             targetName, current, i + 1)

\* walkBrowsePathElement
walkBrowsePathElement_borrows(server, l, elem, targetName, current) ==
    IF elem.referenceTypeId = UA_NODEID_NULL
    THEN currentBorrows(server, l, targetName, current, 0)
    ELSE IF ~referenceTypeBorrows(l, server, elem.referenceTypeId).isRef
    THEN referenceTypeBorrows(l, server, elem.referenceTypeId).ledger
    ELSE currentBorrows(server, referenceTypeBorrows(l, server, elem.referenceTypeId).ledger,
                        targetName, current, 0)

\* addBrowsePathTargets from node i (0-based) on: the browse name is read
\* before the release
RECURSIVE addBrowsePathTargets_borrows(_, _, _, _)
addBrowsePathTargets_borrows(server, l, current, i) ==
    IF i >= Len(current) THEN l
    ELSE IF current[i + 1] \notin server.nodestore
    THEN addBrowsePathTargets_borrows(server, borrowed(l, server, current[i + 1]),
                                      current, i + 1)
    ELSE addBrowsePathTargets_borrows(server,
             released(readNode(borrowed(l, server, current[i + 1]), current[i + 1]),
                      current[i + 1]),
             current, i + 1)

\* walkBrowsePath from path element i (0-based) on
RECURSIVE walkBrowsePath_borrows(_, _, _, _, _, _, _, _)
afterElement_borrows(server, path, after, currentSize, i, l) ==
    IF Len(after.next) = 0 \/ after.result.statusCode # UA_STATUSCODE_GOOD
    THEN l
    ELSE walkBrowsePath_borrows(server, path, exchanged(after, currentSize),
                                after.next, after.nextSize,
                                <<path.elements[i + 1].targetName>>, i + 1, l)

walkBrowsePath_borrows(server, path, w, current, currentSize, targetName, i, l) ==
    IF i >= Len(path.elements)
    THEN addBrowsePathTargets_borrows(server, l, current, 0)
    ELSE afterElement_borrows(server, path,
             walkBrowsePathElement(server, w, path.elements[i + 1], i, targetName, current),
             currentSize, i,
             walkBrowsePathElement_borrows(server, l, path.elements[i + 1],
                                           targetName, current))

\* Operation_TranslateBrowsePathToNodeIds
Operation_TranslateBrowsePathToNodeIds_borrows(server, path) ==
    IF Len(path.elements) <= 0 THEN NoBorrows
    ELSE IF \E i \in 1..Len(path.elements) :
                UA_QualifiedName_isNull(path.elements[i].targetName)
    THEN NoBorrows
    ELSE walkBrowsePath_borrows(server, path,
             [ result |-> [UA_BrowsePathResult_init EXCEPT !.targetsPtr = "ARRAY"],
               targetsCapacity |-> 10, next |-> <<>>, nextSize |-> 10,
               external |-> <<>> ],
             <<path.startingNode>>, 10, <<>>, 0, NoBorrows)

(***************************************************************************)
(* Inputs                                                                  *)
(***************************************************************************)
ResultMaskAll ==
    {"ReferenceTypeId", "IsForward", "NodeClass", "BrowseName", "TypeDefinition"}

\* the browse descriptions of a single exchange
BrowseDescriptions ==
    { BrowseDescription(n, d, t, st, cm, rm) :
        n \in {"Root", "Empty"},
        d \in {UA_BROWSEDIRECTION_FORWARD, UA_BROWSEDIRECTION_INVERSE,
               UA_BROWSEDIRECTION_BOTH, 3},
        t \in {UA_NODEID_NULL, "References", "Hierarchical", "HasComponent", "A"},
        st \in BOOLEAN,
        cm \in {{}, {UA_NODECLASS_VARIABLE}},
        rm \in {{}, ResultMaskAll} }

\* the browse descriptions clients send while several continuation points
\* and sessions are followed
SessionDescriptions ==
    { BrowseDescription("Root", dt[1], dt[2], FALSE, {}, {"ReferenceTypeId", "IsForward"}) :
        dt \in { <<UA_BROWSEDIRECTION_BOTH, "HasComponent">>, <<3, "HasComponent">>,
                 <<UA_BROWSEDIRECTION_BOTH, "A">> } }
\* and the row limits they ask for
SessionMaxRefs == {0, 1}

Sessions == {1, 2}
\* the configured cap on continuation points of each session
continuationPointCap == <<2, 1>>

\* which allocation of an operation fails: none, the row array, the new entry
MemOk == [refs |-> FALSE, cp |-> FALSE]
MemOutcomes == {MemOk, [refs |-> TRUE, cp |-> FALSE], [refs |-> FALSE, cp |-> TRUE]}
MemOutcomesNext == {MemOk, [refs |-> TRUE, cp |-> FALSE]}

\* what is kept of the last service operation: which one it was, and the status
\* and continuation point of its result
Operation(op, release, result) ==
    [ op |-> op, release |-> release, statusCode |-> result.statusCode,
      continuationPoint |-> result.continuationPoint ]
NoOperation == Operation("none", FALSE, UA_BrowseResult_init)

CurrentServer == Server(nodestore, maxReferencesPerNode)

(***************************************************************************)
(* The services on sessions                                                *)
(***************************************************************************)
InitSessions ==
    /\ sessions = [s \in Sessions |->
                     [ continuationPoints |-> <<>>,
                       availableContinuationPoints |-> continuationPointCap[s] ]]
    /\ last = NoOperation

NoExchange ==
    /\ xphase = "none" /\ xdescr = NoDescription /\ xmaxrefs = 0
    /\ xrows = <<>> /\ xcp = UA_BYTESTRING_NULL /\ xstatusOk = TRUE

xvars == <<xphase, xdescr, xmaxrefs, xrows, xcp, xstatusOk>>

NoTranslation ==
    /\ tphase = "none" /\ tpath = BrowsePath(UA_NODEID_NULL, <<>>)
    /\ tresult = UA_BrowsePathResult_init
    /\ tmem = "none"

tvars == <<tphase, tpath, tresult, tmem>>

\* what is kept of a response: the service result and the status of each result
ResponseSummary(response) ==
    [ serviceResult |-> response.serviceResult,
      statusCodes |-> [ i \in 1..Len(response.results) |-> response.results[i].statusCode ] ]
NoResponse == [ serviceResult |-> UA_STATUSCODE_GOOD, statusCodes |-> <<>> ]

NoRequest ==
    /\ maxNodesPerBrowse = 0
    /\ rphase = "none"
    /\ rrequest = BrowseRequest(UA_NODEID_NULL, 0, <<>>)
    /\ rresponse = NoResponse

rvars == <<maxNodesPerBrowse, rphase, rrequest, rresponse>>

Init ==
    /\ nodestore = AllNodeIds
    /\ maxReferencesPerNode \in {0, MaxServerRefs}
    /\ InitSessions
    /\ NoExchange
    /\ NoTranslation
    /\ NoRequest

\* One browse description of a Browse request (the loop body of Service_Browse)
BrowseOne(s, descr, maxrefs, mem, guid) ==
    Service_Browse_single(CurrentServer, sessions[s], 0, descr, maxrefs,
                          UA_BrowseResult_init, mem, guid)

\* One identifier of a BrowseNext request (UA_Server_processServiceOperations
\* calls Operation_BrowseNext with an initialised result)
BrowseNextOne(s, release, continuationPoint, mem) ==
    Operation_BrowseNext(CurrentServer, sessions[s], release, continuationPoint,
                         UA_BrowseResult_init, mem)

\* the guid the generator would return; when the identifier space of the model
\* is used up every session is full and no identifier is asked for
GuidChoices == IF UA_Guid_random(sessions) = {} THEN {UA_BYTESTRING_NULL}
               ELSE UA_Guid_random(sessions)

\* the session after the operation, and what is kept of its result
Served(s, op, release, out) ==
    /\ sessions' = [sessions EXCEPT ![s] = out.session]
    /\ last' = Operation(op, release, out.result)

Browse ==
    \E s \in Sessions, descr \in SessionDescriptions, maxrefs \in SessionMaxRefs,
       mem \in MemOutcomes, guid \in GuidChoices :
        /\ Served(s, "Browse", FALSE, BrowseOne(s, descr, maxrefs, mem, guid))
        /\ UNCHANGED <<nodestore, maxReferencesPerNode, xvars, tvars, rvars>>

BrowseNext ==
    \E s \in Sessions, release \in BOOLEAN, continuationPoint \in 0..NumGuids,
       mem \in MemOutcomesNext :
        /\ Served(s, "BrowseNext", release,
                  BrowseNextOne(s, release, continuationPoint, mem))
        /\ UNCHANGED <<nodestore, maxReferencesPerNode, xvars, tvars, rvars>>

\* The owner of the node store adds or removes a node between service calls
StoreUpdate ==
    /\ \E n \in Volatile :
          nodestore' = IF n \in nodestore THEN nodestore \ {n} ELSE nodestore \cup {n}
    /\ last' = NoOperation
    /\ UNCHANGED <<maxReferencesPerNode, sessions, xvars, tvars, rvars>>

Next == Browse \/ BrowseNext \/ StoreUpdate

Spec == Init /\ [][Next]_vars

(***************************************************************************)
(* The services on one session, the other staying idle, on a server        *)
(* without a configured row limit.                                         *)
(***************************************************************************)
FirstSession == 1

FInit ==
    /\ nodestore = AllNodeIds
    /\ maxReferencesPerNode = 0
    /\ InitSessions
    /\ NoExchange
    /\ NoTranslation
    /\ NoRequest

FBrowse ==
    \E descr \in SessionDescriptions, maxrefs \in SessionMaxRefs,
       mem \in MemOutcomes, guid \in GuidChoices :
        /\ Served(FirstSession, "Browse", FALSE,
                  BrowseOne(FirstSession, descr, maxrefs, mem, guid))
        /\ UNCHANGED <<nodestore, maxReferencesPerNode, xvars, tvars, rvars>>

FBrowseNext ==
    \E release \in BOOLEAN, continuationPoint \in 0..NumGuids, mem \in MemOutcomesNext :
        /\ Served(FirstSession, "BrowseNext", release,
                  BrowseNextOne(FirstSession, release, continuationPoint, mem))
        /\ UNCHANGED <<nodestore, maxReferencesPerNode, xvars, tvars, rvars>>

FNext == FBrowse \/ FBrowseNext \/ StoreUpdate

SpecFirstSession == FInit /\ [][FNext]_vars

(***************************************************************************)
(* Browses of two nodes on both sessions, and BrowseNext calls with every  *)
(* identifier, over a store that stays as it is and with every allocation  *)
(* succeeding (a failed allocation leaves the session as it is).           *)
(***************************************************************************)
CursorDescriptions ==
    { BrowseDescription("Root", UA_BROWSEDIRECTION_BOTH, "HasComponent", FALSE, {}, {}),
      BrowseDescription("B", UA_BROWSEDIRECTION_FORWARD, "HasComponent", FALSE, {}, {}) }
CursorMaxRefs == {1, 2}

CursorBrowse ==
    \E s \in Sessions, descr \in CursorDescriptions, maxrefs \in CursorMaxRefs,
       guid \in GuidChoices :
        /\ Served(s, "Browse", FALSE, BrowseOne(s, descr, maxrefs, MemOk, guid))
        /\ UNCHANGED <<nodestore, maxReferencesPerNode, xvars, tvars, rvars>>

CursorBrowseNext ==
    \E s \in Sessions, release \in BOOLEAN, continuationPoint \in 0..NumGuids :
        /\ Served(s, "BrowseNext", release,
                  BrowseNextOne(s, release, continuationPoint, MemOk))
        /\ UNCHANGED <<nodestore, maxReferencesPerNode, xvars, tvars, rvars>>

CursorNext == CursorBrowse \/ CursorBrowseNext

SpecCursors == FInit /\ [][CursorNext]_vars

(***************************************************************************)
(* One exchange: a Browse and the BrowseNext calls on the continuation     *)
(* point it returned, on session XSession, over a store that stays as it   *)
(* is.  Before the exchange other browses of the session may have taken    *)
(* its continuation points.                                                *)
(***************************************************************************)
XSession == 2

XFillDescription ==
    BrowseDescription("A", UA_BROWSEDIRECTION_FORWARD, UA_NODEID_NULL, FALSE, {}, {})

XInit ==
    /\ nodestore \in Stores
    /\ maxReferencesPerNode \in 0..MaxServerRefs
    /\ InitSessions
    /\ xphase = "fill" /\ xdescr = NoDescription /\ xmaxrefs = 0
    /\ xrows = <<>> /\ xcp = UA_BYTESTRING_NULL /\ xstatusOk = TRUE
    /\ NoTranslation
    /\ NoRequest

\* another browse of the session, which leaves a continuation point behind
XFill ==
    /\ xphase = "fill"
    /\ \E guid \in GuidChoices :
         Served(XSession, "Browse", FALSE,
                BrowseOne(XSession, XFillDescription, 1, MemOk, guid))
    /\ xphase' = "start"
    /\ UNCHANGED <<nodestore, maxReferencesPerNode, xdescr, xmaxrefs, xrows, xcp, xstatusOk, tvars, rvars>>

\* the response out is added to the exchange
XResponse(out) ==
    /\ xrows' = xrows \o out.result.references
    /\ xcp' = out.result.continuationPoint
    /\ xstatusOk' = (xstatusOk /\ out.result.statusCode = UA_STATUSCODE_GOOD)
    /\ xphase' = IF out.result.continuationPoint # UA_BYTESTRING_NULL
                 THEN "open" ELSE "done"

\* the Browse that opens the exchange
XBrowse ==
    /\ xphase \in {"fill", "start"}
    /\ \E descr \in BrowseDescriptions, maxrefs \in 0..MaxRequestedRefs,
          guid \in GuidChoices :
         /\ Served(XSession, "Browse", FALSE,
                   BrowseOne(XSession, descr, maxrefs, MemOk, guid))
         /\ XResponse(BrowseOne(XSession, descr, maxrefs, MemOk, guid))
         /\ xdescr' = descr
         /\ xmaxrefs' = maxrefs
    /\ UNCHANGED <<nodestore, maxReferencesPerNode, tvars, rvars>>

\* a BrowseNext(release = FALSE) on the continuation point of the exchange
XBrowseNext ==
    /\ xphase = "open"
    /\ Served(XSession, "BrowseNext", FALSE, BrowseNextOne(XSession, FALSE, xcp, MemOk))
    /\ XResponse(BrowseNextOne(XSession, FALSE, xcp, MemOk))
    /\ UNCHANGED <<nodestore, maxReferencesPerNode, xdescr, xmaxrefs, tvars, rvars>>

XNext == XFill \/ XBrowse \/ XBrowseNext

SpecExchange == XInit /\ [][XNext]_vars

\* The exchange of a client that browses Root and goes on calling BrowseNext
\* as long as it holds a continuation point.
DrainDescriptions ==
    { BrowseDescription("Root", d, t[1], t[2], cm, {}) :
        d \in {UA_BROWSEDIRECTION_FORWARD, UA_BROWSEDIRECTION_BOTH},
        t \in { <<UA_NODEID_NULL, FALSE>>, <<"HasComponent", FALSE>>,
                <<"Hierarchical", TRUE>> },
        cm \in {{}, {UA_NODECLASS_VARIABLE}} }

DBrowse ==
    /\ xphase = "fill"
    /\ \E descr \in DrainDescriptions, maxrefs \in 0..MaxRequestedRefs,
          guid \in GuidChoices :
         /\ Served(XSession, "Browse", FALSE,
                   BrowseOne(XSession, descr, maxrefs, MemOk, guid))
         /\ XResponse(BrowseOne(XSession, descr, maxrefs, MemOk, guid))
         /\ xdescr' = descr
         /\ xmaxrefs' = maxrefs
    /\ UNCHANGED <<nodestore, maxReferencesPerNode, tvars, rvars>>

\* the BrowseNext(release = FALSE) of that client
DBrowseNext ==
    /\ xphase = "open"
    /\ \E out \in {BrowseNextOne(XSession, FALSE, xcp, MemOk)} :
          Served(XSession, "BrowseNext", FALSE, out) /\ XResponse(out)
    /\ UNCHANGED <<nodestore, maxReferencesPerNode, xdescr, xmaxrefs, tvars, rvars>>

DNext == DBrowse \/ DBrowseNext

\* weak fairness of DBrowseNext, WF_vars(DBrowseNext), written out:
\* DBrowseNext is enabled exactly in the states with xphase = "open"
DrainFairness == []<>(xphase # "open") \/ []<><<DBrowseNext>>_vars

SpecDrain == XInit /\ [][DNext]_vars /\ DrainFairness

(***************************************************************************)
(* One path translation: the client puts a browse path together element by *)
(* element and the server translates it, over a store that stays as it is. *)
(***************************************************************************)
TargetNames ==
    { QualifiedName(1, "x"), QualifiedName(1, "y"), QualifiedName(0, "x"),
      QualifiedName(0, "") }

\* the path elements a client sends: any reference type, the hierarchical
\* ones with subtypes, and an id that is no reference type
PathElements ==
    { RelativePathElement(rt[1], inv, rt[2], name) :
        rt \in { <<UA_NODEID_NULL, FALSE>>, <<"Hierarchical", TRUE>>, <<"A", FALSE>> },
        inv \in BOOLEAN, name \in TargetNames }

TInit ==
    /\ nodestore \in Stores
    /\ maxReferencesPerNode = 0
    /\ InitSessions
    /\ NoExchange
    /\ tphase = "request" /\ tpath = BrowsePath("Root", <<>>)
    /\ tresult = UA_BrowsePathResult_init
    /\ tmem = "none"
    /\ NoRequest

\* the client adds an element to the relative path of its request
TAddElement ==
    /\ tphase = "request"
    /\ Len(tpath.elements) < MaxPathLen
    /\ \E elem \in PathElements :
          tpath' = [tpath EXCEPT !.elements = Append(tpath.elements, elem)]
    /\ UNCHANGED <<nodestore, maxReferencesPerNode, sessions, last, xvars, rvars,
                   tphase, tresult, tmem>>

\* the allocations of Operation_TranslateBrowsePathToNodeIds that may fail
TranslateAllocations == {"none", "targets", "current", "next"}

\* the server translates the path (UA_Server_translateBrowsePathToNodeIds
\* calls the operation with an initialised result)
Translate ==
    /\ tphase = "request"
    /\ \E fails \in TranslateAllocations :
          /\ tmem' = fails
          /\ tresult' = Operation_TranslateBrowsePathToNodeIds(CurrentServer, tpath, fails)
    /\ tphase' = "response"
    /\ UNCHANGED <<nodestore, maxReferencesPerNode, sessions, last, xvars, rvars, tpath>>

TNext == TAddElement \/ Translate

SpecTranslate == TInit /\ [][TNext]_vars

(***************************************************************************)
(* Browse requests: a client puts a request together description by        *)
(* description and sends it on one of the sessions; continuation points    *)
(* are released in between.                                                *)
(***************************************************************************)
RequestDescriptions ==
    { BrowseDescription("Root", UA_BROWSEDIRECTION_BOTH, "HasComponent", FALSE, {}, {}),
      BrowseDescription("A", UA_BROWSEDIRECTION_FORWARD, UA_NODEID_NULL, FALSE, {}, {}),
      BrowseDescription("Root", 3, "HasComponent", FALSE, {}, {}) }

\* no allocation of any description fails
MemsOk == [ i \in 1..MaxRequestSize |-> MemOk ]

\* the guids the generator may return to the operations of one request, in
\* the order of the calls: different values not in use.  A guid is drawn for
\* every continuation point the request creates, which are at most as many as
\* the session has available.
GuidDraws(sess, s) ==
    IF sess[s].availableContinuationPoints < Cardinality(UA_Guid_random(sess))
    THEN sess[s].availableContinuationPoints
    ELSE Cardinality(UA_Guid_random(sess))

GuidOrders(sess, s) ==
    { g \in [1..GuidDraws(sess, s) -> UA_Guid_random(sess)] :
        \A i, j \in DOMAIN g : i # j => g[i] # g[j] }

RInit ==
    /\ nodestore = AllNodeIds
    /\ maxReferencesPerNode = 0
    /\ InitSessions
    /\ NoExchange
    /\ NoTranslation
    /\ maxNodesPerBrowse \in {0, MaxNodesLimit}
    /\ rphase = "none"
    /\ rrequest = BrowseRequest(UA_NODEID_NULL, 0, <<>>)
    /\ rresponse = NoResponse

\* the client starts a request: view and requestedMaxReferencesPerNode
RStart ==
    /\ rphase \in {"none", "response"}
    /\ \E viewId \in {UA_NODEID_NULL, "View"}, maxrefs \in {0, 1} :
          rrequest' = BrowseRequest(viewId, maxrefs, <<>>)
    /\ rphase' = "request"
    /\ rresponse' = NoResponse
    /\ UNCHANGED <<nodestore, maxReferencesPerNode, sessions, last, xvars, tvars,
                   maxNodesPerBrowse>>

\* and adds a browse description to it
RAddDescription ==
    /\ rphase = "request"
    /\ Len(rrequest.nodesToBrowse) < MaxRequestSize
    /\ \E descr \in RequestDescriptions :
          rrequest' = [rrequest EXCEPT !.nodesToBrowse = Append(@, descr)]
    /\ UNCHANGED <<nodestore, maxReferencesPerNode, sessions, last, xvars, tvars,
                   maxNodesPerBrowse, rphase, rresponse>>

\* the response is kept and the session is as the service left it
Responded(s, response) ==
    /\ sessions' = [sessions EXCEPT ![s] = response.session]
    /\ rresponse' = ResponseSummary(response)

\* Service_Browse on the request
RBrowse ==
    /\ rphase = "request"
    /\ \E s \in Sessions, allocFails \in BOOLEAN :
       \E guids \in GuidOrders(sessions, s) :
          Responded(s, Service_Browse(CurrentServer, maxNodesPerBrowse, sessions[s],
                                      rrequest, allocFails, MemsOk, guids))
    /\ rphase' = "response"
    /\ UNCHANGED <<nodestore, maxReferencesPerNode, last, xvars, tvars,
                   maxNodesPerBrowse, rrequest>>

\* a BrowseNext that releases a continuation point
RRelease ==
    /\ rphase = "response"
    /\ \E s \in Sessions :
          \E i \in 1..Len(sessions[s].continuationPoints) :
             sessions' = [sessions EXCEPT ![s] =
                 BrowseNextOne(s, TRUE, sessions[s].continuationPoints[i].identifier,
                               MemOk).session]
    /\ UNCHANGED <<nodestore, maxReferencesPerNode, last, xvars, tvars, rvars>>

RNext == RStart \/ RAddDescription \/ RBrowse \/ RRelease

SpecRequest == RInit /\ [][RNext]_vars

(***************************************************************************)
(* The services of a server: one browse exchange or one path translation.  *)
(***************************************************************************)
SInit == XInit \/ TInit

SNext == XNext \/ TNext

SpecServices == SInit /\ [][SNext]_vars

(***************************************************************************)
(* Translations of two-element paths, drawn from any of three starting     *)
(* nodes over stores that may lack Root, A and B.                          *)
(***************************************************************************)
NestedNames ==
    { QualifiedName(1, "x"), QualifiedName(1, "y"), QualifiedName(0, "x"),
      QualifiedName(0, "Root") }

NestedElements ==
    { RelativePathElement(rt[1], inv, rt[2], name) :
        rt \in { <<UA_NODEID_NULL, FALSE>>, <<"Hierarchical", TRUE>>,
                 <<"Hierarchical", FALSE>>, <<"HasComponent", FALSE>>, <<"A", FALSE>> },
        inv \in BOOLEAN, name \in NestedNames }

NestedStores == { AllNodeIds \ v : v \in SUBSET {"Root", "A", "B"} }

NInit ==
    /\ nodestore \in NestedStores
    /\ maxReferencesPerNode = 0
    /\ InitSessions
    /\ NoExchange
    /\ tphase = "request"
    /\ \E start \in {"Root", "B", "D"}, first \in NestedElements, second \in NestedElements :
          tpath = BrowsePath(start, <<first, second>>)
    /\ tresult = UA_BrowsePathResult_init
    /\ tmem = "none"
    /\ NoRequest

SpecNested == NInit /\ [][Translate]_vars

(***************************************************************************)
(* Properties                                                              *)
(***************************************************************************)
Identifiers(session) ==
    { session.continuationPoints[i].identifier : i \in 1..Len(session.continuationPoints) }
Entries(session) ==
    { session.continuationPoints[i] : i \in 1..Len(session.continuationPoints) }

\* the single response of a Browse of descr with maxRefs = 0 on a server with
\* maxReferencesPerNode = 0, over the store as it is
UnboundedBrowse(descr) ==
    Service_Browse_single(Server(nodestore, 0), sessions[XSession], 0, descr, 0,
                          UA_BrowseResult_init, MemOk, UA_BYTESTRING_NULL)

\* C1 as claimed: when an exchange with maxRefs >= 1 has ended (a response
\* carried no continuation point), the rows of its responses, concatenated in
\* call order, are the rows of the unbounded Browse of the same description.
C1_ConcatenationEqualsUnbounded ==
    (xphase = "done" /\ xmaxrefs >= 1)
        => xrows = UnboundedBrowse(xdescr).result.references

\* C1 amended: the same, for the exchanges all of whose responses have a Good
\* status.
C1_GoodConcatenationEqualsUnbounded ==
    (xphase = "done" /\ xmaxrefs >= 1 /\ xstatusOk)
        => /\ xrows = UnboundedBrowse(xdescr).result.references
           /\ UnboundedBrowse(xdescr).result.statusCode = UA_STATUSCODE_GOOD

\* an exchange of a Browse and at least one BrowseNext that ended with all its
\* rows delivered
C1_Witness ==
    /\ xphase = "done" /\ xmaxrefs >= 1 /\ xstatusOk
    /\ last.op = "BrowseNext"
    /\ Len(xrows) > xmaxrefs
    /\ "B" \notin nodestore

\* C2 as claimed: a Browse that stops at its row limit on a session with no
\* available continuation point answers BadNoContinuationPoints with no rows
\* and no continuation point, and leaves the session as it was.
C2_NoRowsWithoutContinuationPoint ==
    \A s \in Sessions, descr \in SessionDescriptions, maxrefs \in SessionMaxRefs :
        LET out == BrowseOne(s, descr, maxrefs, MemOk, UA_BYTESTRING_NULL) IN
        (sessions[s].availableContinuationPoints = 0 /\ out.limit)
            => /\ out.result.statusCode = UA_STATUSCODE_BADNOCONTINUATIONPOINTS
               /\ out.result.referencesSize = 0
               /\ out.result.references = <<>>
               /\ out.result.continuationPoint = UA_BYTESTRING_NULL
               /\ out.session = sessions[s]

\* C3: in every reachable state availableContinuationPoints plus the number of
\* entries of a session is the session's cap, and the entries do not exceed it.
C3_CounterPlusEntriesIsCap ==
    \A s \in Sessions :
        /\ sessions[s].availableContinuationPoints + Len(sessions[s].continuationPoints)
              = continuationPointCap[s]
        /\ Len(sessions[s].continuationPoints) <= continuationPointCap[s]

\* a full session after an operation that ended with an error status
C3_Witness ==
    /\ Len(sessions[1].continuationPoints) = continuationPointCap[1]
    /\ last.op = "BrowseNext"
    /\ last.statusCode = UA_STATUSCODE_BADNODEIDUNKNOWN

\* C4: a Browse whose result carries a continuation point has put an entry with
\* that identifier into the session; a Browse whose result carries none leaves
\* the session's list and counter as they were.
C4_ContinuationPointIffEntry ==
    \A s \in Sessions, descr \in SessionDescriptions, maxrefs \in SessionMaxRefs,
       mem \in MemOutcomes, guid \in GuidChoices :
        LET out == BrowseOne(s, descr, maxrefs, mem, guid) IN
        IF out.result.continuationPoint # UA_BYTESTRING_NULL
        THEN /\ out.result.continuationPoint \in Identifiers(out.session)
             /\ out.result.continuationPoint \notin Identifiers(sessions[s])
        ELSE out.session = sessions[s]

\* a Browse has completed in one call on a session that holds entries
C4_Witness ==
    /\ last.op = "Browse"
    /\ last.statusCode = UA_STATUSCODE_GOOD
    /\ last.continuationPoint = UA_BYTESTRING_NULL
    /\ \E s \in Sessions : sessions[s].continuationPoints # <<>>

\* What a path translation is to find, said over the address space: the
\* frontier before path element d + 1 (d is the 0-based depth), the nodes of
\* it that are followed, and the targets their accepted kinds lead to.
KindTargets(rk) == { rk.targetIds[j] : j \in 1..Len(rk.targetIds) }

NodeFollowed(server, elem, node) ==
    UNION { KindTargets(node.references[r]) :
              r \in { q \in 1..Len(node.references) :
                        elementAccepts(server, elem, node.references[q]) } }

RECURSIVE PathLevel(_, _, _)
PathSources(server, path, d) ==
    { n \in PathLevel(server, path, d) :
        /\ UA_Nodestore_get(server, n).nodeId # UA_NODEID_NULL
        /\ d > 0 => UA_Nodestore_get(server, n).browseName = path.elements[d].targetName }

PathFollowed(server, path, d) ==
    IF /\ path.elements[d + 1].referenceTypeId # UA_NODEID_NULL
       /\ ~validReferenceType(server, path.elements[d + 1].referenceTypeId)
    THEN {}
    ELSE UNION { NodeFollowed(server, path.elements[d + 1], UA_Nodestore_get(server, n)) :
                   n \in PathSources(server, path, d) }

PathLevel(server, path, d) ==
    IF d = 0 THEN {path.startingNode}
    ELSE { t.nodeId : t \in { u \in PathFollowed(server, path, d - 1) : u.serverIndex = 0 } }

\* the targets on another server met at depth d
PathExternal(server, path, d) ==
    { t \in PathFollowed(server, path, d) : t.serverIndex # 0 }

\* the nodes the whole path leads to
PathResolved(server, path) ==
    { n \in PathLevel(server, path, Len(path.elements)) :
        /\ UA_Nodestore_get(server, n).nodeId # UA_NODEID_NULL
        /\ UA_Nodestore_get(server, n).browseName
              = path.elements[Len(path.elements)].targetName }

ValidPath(path) ==
    /\ Len(path.elements) > 0
    /\ \A i \in 1..Len(path.elements) : ~UA_QualifiedName_isNull(path.elements[i].targetName)

ResultTargets == { tresult.targets[k] : k \in 1..Len(tresult.targets) }

\* C5: when a path translation ends without an error status, every target
\* with serverIndex # 0 that was met at depth d through an accepted reference
\* kind is among the targets of the result with remainingPathIndex = d.
C5_ExternalTargetsAppear ==
    (tphase = "response" /\ tresult.statusCode = UA_STATUSCODE_GOOD)
    => \A d \in 0..(Len(tpath.elements) - 1) :
          \A t \in PathExternal(CurrentServer, tpath, d) :
              BrowsePathTarget(t, d) \in ResultTargets

C7_MissingStartIsNodeIdUnknown ==
    ( /\ tphase = "response"
      /\ ValidPath(tpath) /\ tmem = "none"
      /\ UA_Nodestore_get(CurrentServer, tpath.startingNode).nodeId = UA_NODEID_NULL )
    => tresult.statusCode = UA_STATUSCODE_BADNODEIDUNKNOWN

\* C8: releasing a live identifier removes its entry and no other, adds one to
\* the counter and answers Good without rows or continuation point; a further
\* BrowseNext with the identifier answers BadContinuationPointInvalid and
\* changes nothing.
C8_ReleaseThenInvalid ==
    \A s \in Sessions : \A id \in Identifiers(sessions[s]), mem \in MemOutcomesNext :
        LET out == BrowseNextOne(s, TRUE, id, mem) IN
        /\ id \notin Identifiers(out.session)
        /\ Entries(out.session) = { e \in Entries(sessions[s]) : e.identifier # id }
        /\ Len(out.session.continuationPoints) = Len(sessions[s].continuationPoints) - 1
        /\ out.session.availableContinuationPoints
              = sessions[s].availableContinuationPoints + 1
        /\ out.result = UA_BrowseResult_init
        /\ \A release \in BOOLEAN :
              LET again == Operation_BrowseNext(CurrentServer, out.session, release, id,
                                                UA_BrowseResult_init, mem)
              IN /\ again.result.statusCode = UA_STATUSCODE_BADCONTINUATIONPOINTINVALID
                 /\ again.session = out.session

\* a release has just succeeded and left another entry in a session
C8_Witness ==
    /\ last.op = "BrowseNext" /\ last.release
    /\ last.statusCode = UA_STATUSCODE_GOOD
    /\ Len(sessions[1].continuationPoints) = 1

\* C9: a BrowseNext of session s with byte string b is answered with something
\* other than BadContinuationPointInvalid exactly if b identifies an entry of
\* s; a rejected BrowseNext changes nothing.
C9_AcceptedIffLive ==
    \A s \in Sessions, b \in 0..NumGuids, release \in BOOLEAN, mem \in MemOutcomesNext :
        LET out == BrowseNextOne(s, release, b, mem) IN
        /\ (out.result.statusCode # UA_STATUSCODE_BADCONTINUATIONPOINTINVALID)
              <=> (b \in Identifiers(sessions[s]))
        /\ (b \notin Identifiers(sessions[s])) => out.session = sessions[s]

\* a BrowseNext was rejected while the other session holds an entry that the
\* rejecting session does not
C9_Witness ==
    /\ last.op = "BrowseNext"
    /\ last.statusCode = UA_STATUSCODE_BADCONTINUATIONPOINTINVALID
    /\ \E s \in Sessions, t \in Sessions :
          s # t /\ Identifiers(sessions[t]) \ Identifiers(sessions[s]) # {}

\* C10: a BrowseNext(release = FALSE) on a live identifier that ends Good either
\* exhausts the node, removes the entry and returns no continuation point, or
\* stops at the row limit, keeps the entry and returns the identifier it was
\* given; and no BrowseNext adds an entry.
C10_ResumeRetiresOrKeeps ==
    \A s \in Sessions, b \in 0..NumGuids, release \in BOOLEAN, mem \in MemOutcomesNext :
        LET out == BrowseNextOne(s, release, b, mem) IN
        /\ Identifiers(out.session) \subseteq Identifiers(sessions[s])
        /\ Len(out.session.continuationPoints) <= Len(sessions[s].continuationPoints)
        /\ ( /\ ~release
             /\ b \in Identifiers(sessions[s])
             /\ out.result.statusCode = UA_STATUSCODE_GOOD )
           => IF out.done
              THEN /\ b \notin Identifiers(out.session)
                   /\ Len(out.session.continuationPoints)
                         = Len(sessions[s].continuationPoints) - 1
                   /\ out.result.continuationPoint = UA_BYTESTRING_NULL
              ELSE /\ out.limit
                   /\ b \in Identifiers(out.session)
                   /\ Len(out.session.continuationPoints)
                         = Len(sessions[s].continuationPoints)
                   /\ out.result.continuationPoint = b

\* a resume has just stopped at the row limit and returned its identifier again
C10_Witness ==
    /\ last.op = "BrowseNext" /\ ~last.release
    /\ last.statusCode = UA_STATUSCODE_GOOD
    /\ last.continuationPoint # UA_BYTESTRING_NULL

\* What a browse is to return, said over the address space: for each
\* reference kind of the source node that the description allows, in the order
\* of the node, one row for each target that is in the store and of a class in
\* the mask.
DirectionAllows(descr, rk) ==
    \/ descr.browseDirection = UA_BROWSEDIRECTION_BOTH
    \/ descr.browseDirection = UA_BROWSEDIRECTION_FORWARD /\ ~rk.isInverse
    \/ descr.browseDirection = UA_BROWSEDIRECTION_INVERSE /\ rk.isInverse

TypeAllows(server, descr, rk) ==
    \/ descr.referenceTypeId = UA_NODEID_NULL
    \/ ~descr.includeSubtypes /\ rk.referenceTypeId = descr.referenceTypeId
    \/ /\ descr.includeSubtypes
       /\ isNodeInTree(server, rk.referenceTypeId, descr.referenceTypeId,
                       {UA_NS0ID_HASSUBTYPE})

TargetAllowed(server, descr, t) ==
    /\ t.nodeId \in server.nodestore
    /\ \/ descr.nodeClassMask = {}
       \/ AddressSpace[t.nodeId].nodeClass \in descr.nodeClassMask

KindRows(server, descr, rk) ==
    LET sel == SelectSeq(rk.targetIds, LAMBDA t : TargetAllowed(server, descr, t))
    IN [ i \in 1..Len(sel) |->
           fillReferenceDescription(server, AddressSpace[sel[i].nodeId], rk,
                                    descr.resultMask) ]

RECURSIVE MatchingRowsFrom(_, _, _, _)
MatchingRowsFrom(server, descr, node, r) ==
    IF r > Len(node.references) THEN <<>>
    ELSE ( IF /\ DirectionAllows(descr, node.references[r])
              /\ TypeAllows(server, descr, node.references[r])
           THEN KindRows(server, descr, node.references[r]) ELSE <<>> )
         \o MatchingRowsFrom(server, descr, node, r + 1)

MatchingRows(server, descr) ==
    IF descr.nodeId \notin server.nodestore THEN <<>>
    ELSE MatchingRowsFrom(server, descr, AddressSpace[descr.nodeId], 1)

\* C11: a Browse with no row limit (requested maximum 0, maxReferencesPerNode
\* 0) returns, one row per reference and in the order of the node, exactly the
\* references whose kind the direction and the reference type of the
\* description allow, whose target is in the store and whose target's class is
\* in the class mask; and the rows of a browse with a limit and of all its
\* resumes together are as many.
C11_RowsAreTheMatchingReferences ==
    /\ (xphase = "done" /\ xmaxrefs = 0 /\ maxReferencesPerNode = 0)
          => /\ xrows = MatchingRows(CurrentServer, xdescr)
             /\ last.op = "Browse"
    /\ (xphase = "done" /\ xstatusOk)
          => Len(xrows) = Len(MatchingRows(CurrentServer, xdescr))

\* a browse with subtypes and a class mask, over a store that lacks one of the
\* targets, was resumed to its end and gave at least two rows
C11_Witness ==
    /\ xphase = "done" /\ last.op = "BrowseNext"
    /\ xdescr.includeSubtypes /\ xdescr.nodeClassMask # {}
    /\ "B" \notin nodestore
    /\ Len(xrows) >= 2

\* C12: a Browse of a node that is in the store and has no reference kinds,
\* with a valid direction and reference type, returns Good, referencesSize 0,
\* no continuation point, and as row array the empty-array sentinel, not the
\* null array.
C12_NoReferencesGivesSentinel ==
    xphase \in {"fill", "start"}
    => \A descr \in BrowseDescriptions, maxrefs \in 0..MaxRequestedRefs :
          ( /\ UA_Nodestore_get(CurrentServer, descr.nodeId).nodeId # UA_NODEID_NULL
            /\ Len(UA_Nodestore_get(CurrentServer, descr.nodeId).references) = 0
            /\ validDirection(descr)
            /\ validReferenceType(CurrentServer, descr.referenceTypeId) )
          => LET result == BrowseOne(XSession, descr, maxrefs, MemOk,
                                     UA_BYTESTRING_NULL).result
             IN /\ result.statusCode = UA_STATUSCODE_GOOD
                /\ result.referencesSize = 0
                /\ result.continuationPoint = UA_BYTESTRING_NULL
                /\ result.referencesPtr = "EMPTY_ARRAY_SENTINEL"

\* A result up to the value of its continuation point identifier
Shape(result) ==
    [result EXCEPT !.continuationPoint = IF @ # UA_BYTESTRING_NULL THEN 1 ELSE 0]

SwapAt(seq, i, j) == [seq EXCEPT ![i] = seq[j], ![j] = seq[i]]

\* the request with descriptions i and j exchanged, and with description i
\* taken out
Reordered(request, i, j) ==
    [request EXCEPT !.nodesToBrowse = SwapAt(@, i, j)]
Without(request, i) ==
    [request EXCEPT !.nodesToBrowse = RemoveAt(@, i)]

\* the responses to the request under construction on session s
Answer(s, request, mems, guids) ==
    Service_Browse(CurrentServer, maxNodesPerBrowse, sessions[s], request, FALSE,
                   mems, guids)

\* the result of every description is the same, up to the identifier, when
\* descriptions i and j are processed in the other order
SameResults(a, b, i, j) ==
    \A k \in 1..Len(a.results) :
       Shape(a.results[k]) =
          Shape(b.results[IF k = i THEN j ELSE IF k = j THEN i ELSE k])

SameInOtherOrder(s, guids, i, j) ==
    SameResults(Answer(s, rrequest, MemsOk, guids),
                Answer(s, Reordered(rrequest, i, j), MemsOk, guids), i, j)

\* C13 as claimed: within one Browse request the result of each description
\* is the same whatever order the descriptions are processed in.
C13_ResultsIndependentOfOrder ==
    rphase = "request"
    => \A s \in Sessions : \A guids \in GuidOrders(sessions, s) :
          \A i, j \in 1..Len(rrequest.nodesToBrowse) :
             i < j => SameInOtherOrder(s, guids, i, j)

\* C13 amended: an operation-level error of one description (allocation
\* failures included) leaves the results of its siblings and the session as
\* they are without that description; and when no description of the request
\* is answered BadNoContinuationPoints, the result of each description is, up
\* to the identifier, the same whatever order the descriptions are processed in.
C13_IndependentWithinQuota ==
    rphase = "request"
    => \A s \in Sessions : \A guids \in GuidOrders(sessions, s) :
          /\ LET a == Answer(s, rrequest, MemsOk, guids)
             IN (\A k \in 1..Len(a.results) :
                    a.results[k].statusCode # UA_STATUSCODE_BADNOCONTINUATIONPOINTS)
                => \A i, j \in 1..Len(rrequest.nodesToBrowse) :
                      i < j
                      => SameResults(a, Answer(s, Reordered(rrequest, i, j),
                                               MemsOk, guids), i, j)
          /\ \A i \in 1..Len(rrequest.nodesToBrowse), m \in MemOutcomes :
                LET a == Answer(s, rrequest, [MemsOk EXCEPT ![i] = m], guids)
                    c == Answer(s, Without(rrequest, i), MemsOk, guids)
                IN ( /\ a.serviceResult = UA_STATUSCODE_GOOD
                     /\ a.results[i].statusCode # UA_STATUSCODE_GOOD )
                   => /\ a.session = c.session
                      /\ RemoveAt(a.results, i) = c.results

\* a request of two descriptions was answered: the first with an error, the
\* second Good with a continuation point
C13_Witness ==
    /\ rphase = "response"
    /\ Len(rresponse.statusCodes) = 2
    /\ rresponse.statusCodes[1] # UA_STATUSCODE_GOOD
    /\ rresponse.statusCodes[2] = UA_STATUSCODE_GOOD
    /\ rrequest.requestedMaxReferencesPerNode = 1
    /\ rrequest.nodesToBrowse[2].nodeId = "A"
    /\ \E s \in Sessions : Len(sessions[s].continuationPoints) = continuationPointCap[s]

\* the allocation outcomes of a Browse as far as they change its control flow:
\* the row array is not allocated, or is not enlarged at failAt rows
ReallocFailures == {0, 2, 4}

Balanced(l) == l.held = <<>> /\ ~l.fault

\* C14: whatever the input and the exit taken, allocation failures included,
\* every Browse, BrowseNext and path translation leaves no node borrowed from
\* the store, releases no node it does not hold and reads no node it has
\* released.
C14_BorrowsAreReleased ==
    /\ xphase \in {"fill", "start"}
       => \A descr \in BrowseDescriptions, maxrefs \in 0..MaxRequestedRefs,
             mem \in MemOutcomes, failAt \in ReallocFailures :
             Balanced(Service_Browse_single_borrows(CurrentServer,
                         ContinuationPointEntry(UA_BYTESTRING_NULL, descr, 0, 0, maxrefs),
                         mem, failAt))
    /\ xphase = "open"
       => \A continuationPoint \in 0..NumGuids, rel \in BOOLEAN,
             mem \in MemOutcomes, failAt \in ReallocFailures :
             Balanced(Operation_BrowseNext_borrows(CurrentServer, sessions[XSession], rel,
                                                   continuationPoint, mem, failAt))
    /\ tphase = "request"
       => Balanced(Operation_TranslateBrowsePathToNodeIds_borrows(CurrentServer, tpath))

\* a browse with a class mask that asked for type definitions was resumed to
\* its end over a store that lacks a target
C14_Witness ==
    /\ xphase = "done" /\ last.op = "BrowseNext"
    /\ xdescr.nodeClassMask # {} /\ "TypeDefinition" \in xdescr.resultMask
    /\ "B" \notin nodestore
    /\ Len(xrows) >= 2

\* position a is not behind position b in the order of the walk
NotBehind(a, b) ==
    \/ a.referenceKindIndex > b.referenceKindIndex
    \/ /\ a.referenceKindIndex = b.referenceKindIndex
       /\ a.targetIndex >= b.targetIndex

\* C15: as long as a continuation point is live, the position it stores
\* (referenceKindIndex, targetIndex) never moves backwards in lexicographic
\* order, whatever operation is served.
C15_PositionNeverDecreases ==
    [][ \A s \in Sessions :
          \A i \in 1..Len(sessions[s].continuationPoints) :
             \A j \in 1..Len(sessions'[s].continuationPoints) :
                sessions[s].continuationPoints[i].identifier
                   = sessions'[s].continuationPoints[j].identifier
                => NotBehind(sessions'[s].continuationPoints[j],
                             sessions[s].continuationPoints[i]) ]_vars

\* a resume has just moved a continuation point to the third target of a kind
\* or further
C15_Witness ==
    /\ last.op = "BrowseNext" /\ ~last.release
    /\ \E s \in Sessions :
          \E i \in 1..Len(sessions[s].continuationPoints) :
             /\ sessions[s].continuationPoints[i].identifier = last.continuationPoint
             /\ sessions[s].continuationPoints[i].targetIndex >= 2

\* the limits in force: the requested maximum and the configured one, as far
\* as they are not 0
LimitsInForce(requested, configured) == {requested, configured} \ {0}

WithinLimits(n, requested, configured) ==
    \A limit \in LimitsInForce(requested, configured) : n <= limit

Capped(n, requested, configured) ==
    IF \E limit \in LimitsInForce(requested, configured) : limit < n
    THEN CHOOSE limit \in LimitsInForce(requested, configured) :
            \A other \in LimitsInForce(requested, configured) : limit <= other
    ELSE n

\* C17: targets that are not in the store are skipped without an error and do
\* not count against the limit: a Good response has as many rows as the limit
\* in force allows whenever that many matching references with a target in
\* the store remain (and all that remain otherwise), wherever the missing
\* targets lie.
C17_MissingTargetsNotCounted ==
    /\ xphase \in {"fill", "start"}
       => \A descr \in BrowseDescriptions, maxrefs \in 0..MaxRequestedRefs :
             LET result == BrowseOne(XSession, descr, maxrefs, MemOk,
                                     UA_BYTESTRING_NULL).result
             IN result.statusCode = UA_STATUSCODE_GOOD
                => result.referencesSize
                      = Capped(Len(MatchingRows(CurrentServer, descr)),
                               maxrefs, maxReferencesPerNode)
    /\ xphase = "open"
       => LET result == BrowseNextOne(XSession, FALSE, xcp, MemOk).result
          IN /\ result.statusCode = UA_STATUSCODE_GOOD
             /\ result.referencesSize
                   = Capped(Len(MatchingRows(CurrentServer, xdescr)) - Len(xrows),
                            xmaxrefs, maxReferencesPerNode)

\* over a store without B, a Browse of the components of Root with limit 2 has
\* returned two rows, the targets before and after B, and more is to come
C17_Witness ==
    /\ xphase = "open" /\ last.op = "Browse"
    /\ "B" \notin nodestore
    /\ xdescr.nodeId = "Root" /\ xdescr.referenceTypeId = "HasComponent"
    /\ xdescr.browseDirection = UA_BROWSEDIRECTION_FORWARD
    /\ xdescr.nodeClassMask = {}
    /\ xmaxrefs = 2
    /\ Len(xrows) = 2 /\ xrows[1].nodeId = "A" /\ xrows[2].nodeId = "E"

\* C18: a Browse whose browseDirection is none of forward, inverse and both
\* is answered BadBrowseDirectionInvalid with no rows and no continuation
\* point and leaves the session as it is, also when the reference type is
\* invalid or the node is unknown: the store is not looked at.
C18_InvalidDirectionRejectedFirst ==
    xphase \in {"fill", "start"}
    => \A descr \in BrowseDescriptions, maxrefs \in 0..MaxRequestedRefs,
          guid \in GuidChoices :
          descr.browseDirection \notin {UA_BROWSEDIRECTION_FORWARD,
                                        UA_BROWSEDIRECTION_INVERSE,
                                        UA_BROWSEDIRECTION_BOTH}
          => /\ BrowseOne(XSession, descr, maxrefs, MemOk, guid).result
                  = [UA_BrowseResult_init EXCEPT
                        !.statusCode = UA_STATUSCODE_BADBROWSEDIRECTIONINVALID]
             /\ BrowseOne(XSession, descr, maxrefs, MemOk, guid).session
                  = sessions[XSession]
             /\ Service_Browse_single_borrows(CurrentServer,
                   ContinuationPointEntry(UA_BYTESTRING_NULL, descr, 0, 0, maxrefs),
                   MemOk, 0).gets = 0

\* a Browse with an invalid direction, an invalid reference type and an
\* unknown node was answered BadBrowseDirectionInvalid
C18_Witness ==
    /\ xphase = "done" /\ last.op = "Browse"
    /\ last.statusCode = UA_STATUSCODE_BADBROWSEDIRECTIONINVALID
    /\ xdescr.referenceTypeId = "A"
    /\ xdescr.nodeId = "Root" /\ "Root" \notin nodestore
    /\ xrows = <<>> /\ xcp = UA_BYTESTRING_NULL

\* C19: a Browse request with a view is rejected BadViewIdUnknown; else one
\* without descriptions BadNothingToDo; else one with more descriptions than
\* maxNodesPerBrowse, when that is not 0, BadTooManyOperations; a rejected
\* request gets no results and leaves the session as it is; and with
\* maxNodesPerBrowse = 0 no request is rejected for its size.
C19_RequestLevelRejection ==
    rphase = "request"
    => \A s \in Sessions, allocFails \in BOOLEAN : \A guids \in GuidOrders(sessions, s) :
          LET r == Service_Browse(CurrentServer, maxNodesPerBrowse, sessions[s],
                                  rrequest, allocFails, MemsOk, guids)
              size == Len(rrequest.nodesToBrowse)
              tooMany == maxNodesPerBrowse # 0 /\ size > maxNodesPerBrowse
          IN /\ rrequest.viewId # UA_NODEID_NULL
                => r.serviceResult = UA_STATUSCODE_BADVIEWIDUNKNOWN
             /\ (rrequest.viewId = UA_NODEID_NULL /\ size = 0)
                => r.serviceResult = UA_STATUSCODE_BADNOTHINGTODO
             /\ (rrequest.viewId = UA_NODEID_NULL /\ size > 0 /\ tooMany)
                => r.serviceResult = UA_STATUSCODE_BADTOOMANYOPERATIONS
             /\ (rrequest.viewId = UA_NODEID_NULL /\ size > 0 /\ ~tooMany /\ ~allocFails)
                => /\ r.serviceResult = UA_STATUSCODE_GOOD
                   /\ r.resultsSize = size
             /\ r.serviceResult # UA_STATUSCODE_GOOD
                => /\ r.results = <<>> /\ r.resultsSize = 0
                   /\ r.session = sessions[s]

\* a request of two descriptions was rejected for its size by a server with
\* maxNodesPerBrowse = 1
C19_Witness ==
    /\ rphase = "response"
    /\ rresponse.serviceResult = UA_STATUSCODE_BADTOOMANYOPERATIONS
    /\ rresponse.statusCodes = <<>>
    /\ Len(rrequest.nodesToBrowse) = 2 /\ maxNodesPerBrowse = 1

\* C20: the translation of a path without elements ends with BadNothingToDo,
\* that of a path with an empty target name at any position with
\* BadBrowseNameInvalid; in both cases the result has no targets and the store
\* is not looked at.
C20_PathRejectedBeforeLookup ==
    tphase = "response"
    => /\ Len(tpath.elements) = 0
          => tresult.statusCode = UA_STATUSCODE_BADNOTHINGTODO
       /\ ( /\ Len(tpath.elements) > 0
            /\ \E i \in 1..Len(tpath.elements) :
                  tpath.elements[i].targetName = QualifiedName(0, "") )
          => tresult.statusCode = UA_STATUSCODE_BADBROWSENAMEINVALID
       /\ ~ValidPath(tpath)
          => /\ tresult.targets = <<>> /\ tresult.targetsSize = 0
             /\ tresult.targetsPtr = "NULL"
             /\ Operation_TranslateBrowsePathToNodeIds_borrows(CurrentServer, tpath).gets = 0

\* a path whose second element has an empty target name, from a starting node
\* that is not in the store, was answered BadBrowseNameInvalid
C20_Witness ==
    /\ tphase = "response"
    /\ tresult.statusCode = UA_STATUSCODE_BADBROWSENAMEINVALID
    /\ Len(tpath.elements) = 2
    /\ tpath.elements[1].targetName = QualifiedName(1, "x")
    /\ tpath.elements[2].targetName = QualifiedName(0, "")
    /\ "Root" \notin nodestore

\* C21: the status of a path translation is BadNoMatch exactly when the walk
\* ended without an error and without a target; a result whose status is not
\* Good has a null targets array and targetsSize 0, and a Good result has at
\* least one target.
C21_NoMatchAndNullTargets ==
    tphase = "response"
    => /\ (ValidPath(tpath) /\ tmem = "none")
          => ( tresult.statusCode = UA_STATUSCODE_BADNOMATCH
               <=> /\ walkOf(CurrentServer, tpath).result.statusCode = UA_STATUSCODE_GOOD
                   /\ walkOf(CurrentServer, tpath).result.targetsSize = 0 )
       /\ (~ValidPath(tpath) \/ tmem # "none")
          => tresult.statusCode # UA_STATUSCODE_BADNOMATCH
       /\ tresult.statusCode # UA_STATUSCODE_GOOD
          => /\ tresult.targetsPtr = "NULL"
             /\ tresult.targets = <<>> /\ tresult.targetsSize = 0
       /\ tresult.statusCode = UA_STATUSCODE_GOOD
          => tresult.targetsSize >= 1 /\ Len(tresult.targets) = tresult.targetsSize

\* Two nested browses filtered by name: the unbounded Browse of a node
\* through the references a path element follows, the rows with the browse
\* name of the element, and the rows of the second browse from each.
NestedDescription(nodeId, elem) ==
    BrowseDescription(nodeId,
                      IF elem.isInverse THEN UA_BROWSEDIRECTION_INVERSE
                      ELSE UA_BROWSEDIRECTION_FORWARD,
                      elem.referenceTypeId, elem.includeSubtypes, {}, {"BrowseName"})

NamedRows(nodeId, elem) ==
    LET rows == UnboundedBrowse(NestedDescription(nodeId, elem)).result.references
    IN { rows[k].nodeId : k \in { q \in 1..Len(rows) : rows[q].browseName = elem.targetName } }

NestedBrowse(path) ==
    UNION { NamedRows(m, path.elements[2]) : m \in NamedRows(path.startingNode, path.elements[1]) }

\* no node of the store has a target on another server
NoExternalTargets(server) ==
    \A n \in server.nodestore : \A r \in 1..Len(AddressSpace[n].references) :
       \A t \in KindTargets(AddressSpace[n].references[r]) : t.serverIndex = 0

\* the references the path follows lead to no target on another server
NoExternalMet(server, path) ==
    \A d \in 0..(Len(path.elements) - 1) : PathExternal(server, path, d) = {}

\* C22: over a store without targets on another server (it is enough that the
\* references the path follows lead to none), the targets of the translation
\* of a two-element path are the nodes two nested browses filtered by name
\* find: the rows, with the browse name of element 2, of the browse through
\* element 2 of every row, with the browse name of element 1, of the browse of
\* the starting node through element 1.
C22_TranslateIsNestedBrowse ==
    ( /\ tphase = "response" /\ tmem = "none"
      /\ Len(tpath.elements) = 2
      /\ NoExternalTargets(CurrentServer) \/ NoExternalMet(CurrentServer, tpath) )
    => /\ { tresult.targets[k].targetId.nodeId : k \in 1..Len(tresult.targets) }
             = NestedBrowse(tpath)
       /\ \A k \in 1..Len(tresult.targets) : tresult.targets[k].targetId.serverIndex = 0

\* a two-element path from Root was translated to at least one target through
\* a node whose sibling does not have the browse name of the first element
C22_Witness ==
    /\ tphase = "response" /\ tmem = "none"
    /\ tpath.startingNode = "Root" /\ Len(tpath.elements) = 2
    /\ NoExternalMet(CurrentServer, tpath)
    /\ tresult.statusCode = UA_STATUSCODE_GOOD /\ tresult.targetsSize >= 1
    /\ PathLevel(CurrentServer, tpath, 1) \ PathSources(CurrentServer, tpath, 1) # {}

\* What BrowseNext does to the entries of a session: every entry other than
\* the one named stays as it is; the one named leaves the list only by a
\* release or by a resume that ends Good with the node exhausted; a resume that
\* does not end Good leaves the session as it is.
ResumeKeepsEntries(s) ==
    \A b \in 0..NumGuids, release \in BOOLEAN, mem \in MemOutcomesNext :
        LET out == BrowseNextOne(s, release, b, mem) IN
        /\ \A e \in Entries(sessions[s]) :
              e.identifier # b => e \in Entries(out.session)
        /\ (b \in Identifiers(sessions[s]) /\ b \notin Identifiers(out.session))
              => (release \/ (out.result.statusCode = UA_STATUSCODE_GOOD /\ out.done))
        /\ (~release /\ out.result.statusCode # UA_STATUSCODE_GOOD)
              => out.session = sessions[s]

\* the entries a Browse finds in the session are in it afterwards, in their
\* places behind an entry the Browse may have added
BrowseKeepsEntries(before, after) ==
    \/ after.continuationPoints = before.continuationPoints
    \/ /\ after.continuationPoints # <<>>
       /\ Tail(after.continuationPoints) = before.continuationPoints

\* C23 as claimed: a continuation point leaves the list of its session only
\* through a BrowseNext with release or a resume to exhaustion; a resume that
\* ends with a status other than Good, and any Browse, leave every entry, its
\* position and the counter unchanged.
C23_EntriesLeaveByBrowseNextOnly ==
    \A s \in Sessions :
        /\ ResumeKeepsEntries(s)
        /\ \A descr \in SessionDescriptions, maxrefs \in SessionMaxRefs,
              mem \in MemOutcomes, guid \in GuidChoices :
              LET out == BrowseOne(s, descr, maxrefs, mem, guid) IN
              /\ BrowseKeepsEntries(sessions[s], out.session)
              /\ out.session.availableContinuationPoints
                    = sessions[s].availableContinuationPoints

\* C23 amended: the same, but the counter after a Browse is the counter before
\* less one for the entry the Browse added.
C23_EntriesLeaveAndCounterFollows ==
    \A s \in Sessions :
        /\ ResumeKeepsEntries(s)
        /\ \A descr \in SessionDescriptions, maxrefs \in SessionMaxRefs,
              mem \in MemOutcomes, guid \in GuidChoices :
              LET out == BrowseOne(s, descr, maxrefs, mem, guid) IN
              /\ BrowseKeepsEntries(sessions[s], out.session)
              /\ out.session.availableContinuationPoints
                    = sessions[s].availableContinuationPoints
                         - (Len(out.session.continuationPoints)
                               - Len(sessions[s].continuationPoints))

\* a resume has just ended with BadNodeIdUnknown on a session that holds two
\* entries, one of them moved on from where its Browse left it
C23_Witness ==
    /\ last.op = "BrowseNext" /\ ~last.release
    /\ last.statusCode = UA_STATUSCODE_BADNODEIDUNKNOWN
    /\ Len(sessions[1].continuationPoints) = 2
    /\ sessions[1].continuationPoints[1].targetIndex
          # sessions[1].continuationPoints[2].targetIndex

\* the smallest of the limits in force
EffectiveLimit(requested, configured) ==
    CHOOSE limit \in LimitsInForce(requested, configured) :
       \A other \in LimitsInForce(requested, configured) : limit <= other

\* the matching references of the node of descr at or after a stored position
MatchingAt(server, descr, cp) ==
    LET node == AddressSpace[descr.nodeId]
        rk == node.references[cp.referenceKindIndex + 1]
    IN IF cp.referenceKindIndex >= Len(node.references) THEN <<>>
       ELSE ( IF DirectionAllows(descr, rk) /\ TypeAllows(server, descr, rk)
              THEN SelectSeq(SubSeq(rk.targetIds, cp.targetIndex + 1, Len(rk.targetIds)),
                             LAMBDA t : TargetAllowed(server, descr, t))
              ELSE <<>> )
            \o MatchingRowsFrom(server, descr, node, cp.referenceKindIndex + 2)

\* a response with a continuation point has as many rows as the effective
\* limit, and a matching reference remains at the position stored in session
FullAndMore(result, session, descr, requested, delivered) ==
    result.continuationPoint # UA_BYTESTRING_NULL
    => /\ LimitsInForce(requested, maxReferencesPerNode) # {}
       /\ result.referencesSize = EffectiveLimit(requested, maxReferencesPerNode)
       /\ \E i \in 1..Len(session.continuationPoints) :
             /\ session.continuationPoints[i].identifier = result.continuationPoint
             /\ MatchingAt(CurrentServer, descr, session.continuationPoints[i]) # <<>>
             /\ Len(MatchingAt(CurrentServer, descr, session.continuationPoints[i]))
                   = Len(MatchingRows(CurrentServer, descr)) - delivered
                        - result.referencesSize

\* C24: a response to a Browse or a BrowseNext carries a continuation point
\* only if it has exactly as many rows as the effective limit and a reference
\* that passes the filters and whose target is in the store remains at or
\* after the stored position; so, the store staying as it is, the last resume
\* of an exchange returns at least one row, and a Browse with as many matches
\* as the limit returns no continuation point.
C24_ContinuationPointMeansMore ==
    /\ xphase \in {"fill", "start"}
       => \A descr \in BrowseDescriptions, maxrefs \in 0..MaxRequestedRefs,
             guid \in GuidChoices :
             LET out == BrowseOne(XSession, descr, maxrefs, MemOk, guid)
             IN /\ FullAndMore(out.result, out.session, descr, maxrefs, 0)
                /\ ( /\ LimitsInForce(maxrefs, maxReferencesPerNode) # {}
                     /\ Len(MatchingRows(CurrentServer, descr))
                           = EffectiveLimit(maxrefs, maxReferencesPerNode) )
                   => out.result.continuationPoint = UA_BYTESTRING_NULL
    /\ xphase = "open"
       => LET out == BrowseNextOne(XSession, FALSE, xcp, MemOk)
          IN /\ FullAndMore(out.result, out.session, xdescr, xmaxrefs, Len(xrows))
             /\ out.result.continuationPoint = UA_BYTESTRING_NULL
                => out.result.referencesSize >= 1

\* the last resume of an exchange has returned a single row after responses
\* that were full: the matches were not a multiple of the limit
C24_Witness ==
    /\ xphase = "done" /\ last.op = "BrowseNext" /\ xstatusOk
    /\ xmaxrefs = 2 /\ maxReferencesPerNode = 0
    /\ Len(xrows) = 3

\* the entry of the exchange in the session
XEntry(sess) ==
    sess[XSession].continuationPoints[findCp(sess[XSession], xcp)]

\* a resume of the exchange that ends Good returns at least one row, and moves
\* the stored position forward when it keeps the continuation point
ResumeAdvances ==
    (xphase = "open" /\ last'.op = "BrowseNext" /\ last'.statusCode = UA_STATUSCODE_GOOD)
    => /\ Len(xrows') > Len(xrows)
       /\ Len(xrows') <= Len(MatchingRows(CurrentServer, xdescr))
       /\ xphase' = "open"
          => /\ xcp' = xcp
             /\ NotBehind(XEntry(sessions'), XEntry(sessions))
             /\ <<XEntry(sessions').referenceKindIndex, XEntry(sessions').targetIndex>>
                   # <<XEntry(sessions).referenceKindIndex, XEntry(sessions).targetIndex>>

\* C25: over a store that stays as it is, BrowseNext(release = FALSE) called
\* again and again on a continuation point retires it: the effective limit is
\* at least 1, fewer rows than the matching references have been delivered
\* while the continuation point is held, every resume that ends Good returns at
\* least one row and moves the stored position strictly forward, and in the
\* end the entry has left the session.
C25_ResumesDrainTheCursor ==
    /\ [](xphase = "open"
            => /\ effectiveMaxrefs(CurrentServer, XEntry(sessions).maxReferences) >= 1
               /\ Len(xrows) < Len(MatchingRows(CurrentServer, xdescr)))
    /\ [][ResumeAdvances]_vars
    /\ (xphase = "open")
          ~> (xphase = "done" /\ sessions[XSession].continuationPoints = <<>>)

\* a continuation point was retired by its third resume
C25_Witness ==
    /\ xphase = "done" /\ last.op = "BrowseNext" /\ xstatusOk
    /\ xmaxrefs = 1 /\ maxReferencesPerNode = 0
    /\ Len(xrows) = 4

\* the entry of the session that has the identifier
EntryOf(session, identifier) ==
    CHOOSE e \in Entries(session) : e.identifier = identifier

RowsOf(server, descr) ==
    { MatchingRows(server, descr)[i] : i \in 1..Len(MatchingRows(server, descr)) }

\* a Browse that returns an identifier has put an entry with that identifier
\* and with its own description and row limit into the session, next to the
\* entries that were there, none of which has that identifier
BrowseNamesItsCursor(before, descr, maxrefs, out) ==
    out.result.continuationPoint # UA_BYTESTRING_NULL
        => /\ out.result.continuationPoint \notin Identifiers(before)
           /\ Entries(before) \subseteq Entries(out.session)
           /\ \E e \in Entries(out.session) :
                 /\ e.identifier = out.result.continuationPoint
                 /\ e.browseDescription = descr
                 /\ e.maxReferences = maxrefs

\* a BrowseNext with an identifier that is not in the session changes nothing;
\* with one that is, it changes the entry with that identifier and no other:
\* a release removes it, a resume returns rows of its browse, and an entry that
\* stays keeps its identifier, its description and its row limit
BrowseNextActsOnNamedCursor(before, b, release, out) ==
    IF b \notin Identifiers(before)
    THEN /\ out.result.statusCode = UA_STATUSCODE_BADCONTINUATIONPOINTINVALID
         /\ out.session = before
    ELSE LET cur == EntryOf(before, b) IN
         /\ \A e \in Entries(before) : e # cur => e \in Entries(out.session)
         /\ Len(out.session.continuationPoints) <= Len(before.continuationPoints)
         /\ out.result.continuationPoint \in {UA_BYTESTRING_NULL, b}
         /\ release => /\ b \notin Identifiers(out.session)
                        /\ out.result.references = <<>>
         /\ ~release
               => /\ \A i \in 1..Len(out.result.references) :
                        out.result.references[i]
                            \in RowsOf(CurrentServer, cur.browseDescription)
                  /\ out.result.statusCode = UA_STATUSCODE_GOOD
                        => out.result.references # <<>>
                  /\ (out.result.statusCode = UA_STATUSCODE_GOOD)
                        => (out.result.continuationPoint = b
                               <=> b \in Identifiers(out.session))
                  /\ b \in Identifiers(out.session)
                        => /\ EntryOf(out.session, b).browseDescription
                                 = cur.browseDescription
                           /\ EntryOf(out.session, b).maxReferences = cur.maxReferences

====
